---- MODULE Spec2Model ----
(***************************************************************************)
(* AgriDetect: the rule-based chat resolver (chatbot.py), the              *)
(* prediction-to-catalog reconciler and the chat endpoint (main.py).       *)
(*                                                                         *)
(* Texts are TLA+ strings, handled as sequences of characters (Len, Head,  *)
(* Tail, SubSeq, \o).  Characters outside Latin-1 cannot be written in a   *)
(* TLA+ string: the em dash of a display name is the one-character         *)
(* stand-in EMDASH, the bullet of the reply templates is "·", and the      *)
(* emoji of the reply templates are written :name:.                        *)
(***************************************************************************)
EXTENDS Integers, Sequences, FiniteSets, TLC

(***************************************************************************)
(* The tables of the three modules.  They are module-level (or class-level)*)
(* objects that every handler reads.                                       *)
(***************************************************************************)
VARIABLES
    DISEASE_INFO,           \* chatbot.py: MultilingualAgriChatbot.DISEASE_INFO
    DATASET_DISEASES,       \* main.py: DATASET_DISEASES
    detector_DISEASE_INFO,  \* disease_detector.py: DISEASE_INFO
    TREATMENTS_DB           \* disease_detector.py: TREATMENTS_DB

tables == <<DISEASE_INFO, DATASET_DISEASES, detector_DISEASE_INFO, TREATMENTS_DB>>

(***************************************************************************)
(* Python built-ins used by the code                                       *)
(***************************************************************************)

\* Python's None, where the code returns Optional[str]
None == "<None>"

\* Python's None, where the code returns Optional[Dict]
NoneEntry == [none |-> TRUE]

EMDASH == "¯"

\* the characters str.strip() and str.split() treat as white space
WHITESPACE == {" ", "\t", "\n", "\r", "\f"}

UPPER == "ABCDEFGHIJKLMNOPQRSTUVWXYZÀÁÂÃÄÅÆÇÈÉÊËÌÍÎÏÐÑÒÓÔÕÖØÙÚÛÜÝÞ"

LOWER == "abcdefghijklmnopqrstuvwxyzàáâãäåæçèéêëìíîïðñòóôõöøùúûüýþ"

LowerMap ==
    [c \in {SubSeq(UPPER, i, i) : i \in 1..Len(UPPER)} |->
        LET i == CHOOSE j \in 1..Len(UPPER) : SubSeq(UPPER, j, j) = c
        IN  SubSeq(LOWER, i, i)]

\* str.lower()
RECURSIVE Lower(_)
Lower(s) ==
    IF s = "" THEN ""
    ELSE (IF Head(s) \in DOMAIN LowerMap THEN LowerMap[Head(s)] ELSE Head(s))
         \o Lower(Tail(s))

RECURSIVE LStrip(_)
LStrip(s) ==
    IF s # "" /\ Head(s) \in WHITESPACE THEN LStrip(Tail(s)) ELSE s

RECURSIVE RStrip(_)
RStrip(s) ==
    IF s # "" /\ SubSeq(s, Len(s), Len(s)) \in WHITESPACE
    THEN RStrip(SubSeq(s, 1, Len(s) - 1))
    ELSE s

\* str.strip()
Strip(s) == RStrip(LStrip(s))

\* sub in s (Python's substring test; the empty string is in every string)
Contains(sub, s) ==
    \E i \in 0..(Len(s) - Len(sub)) : SubSeq(s, i + 1, i + Len(sub)) = sub

\* s begins with p
StartsWith(p, s) == Len(p) <= Len(s) /\ SubSeq(s, 1, Len(p)) = p

\* s.replace(old, new), old non-empty: left to right, non-overlapping
RECURSIVE Replace(_, _, _)
Replace(s, old, new) ==
    IF Len(s) < Len(old) THEN s
    ELSE IF SubSeq(s, 1, Len(old)) = old
         THEN new \o Replace(SubSeq(s, Len(old) + 1, Len(s)), old, new)
         ELSE Head(s) \o Replace(Tail(s), old, new)

RECURSIVE SplitFrom(_, _, _)
SplitFrom(s, cur, acc) ==
    IF s = "" THEN (IF cur = "" THEN acc ELSE Append(acc, cur))
    ELSE IF Head(s) \in WHITESPACE
         THEN SplitFrom(Tail(s), "", IF cur = "" THEN acc ELSE Append(acc, cur))
         ELSE SplitFrom(Tail(s), cur \o Head(s), acc)

\* s.split(): the white-space separated tokens of s
Split(s) == SplitFrom(s, "", <<>>)

\* sep.join(lines)
RECURSIVE Join(_, _)
Join(lines, sep) ==
    IF lines = <<>> THEN ""
    ELSE IF Len(lines) = 1 THEN lines[1]
         ELSE lines[1] \o sep \o Join(Tail(lines), sep)

\* the result of the first iteration of a loop that returns, None if none does
FirstResult(results) ==
    IF \E i \in DOMAIN results : results[i] # None
    THEN results[CHOOSE i \in DOMAIN results :
                    /\ results[i] # None
                    /\ \A j \in 1..(i - 1) : results[j] = None]
    ELSE None

(***************************************************************************)
(* chatbot.py: the knowledge base                                          *)
(***************************************************************************)

\* the literal of the class body
DISEASE_INFO_init ==
  <<
    [ key |-> "pepper_bacterial_spot",
      name |-> "Tache bactérienne du poivron",
      crop |-> "Poivron / Piment",
      severity |-> "Modérée",
      treatments |-> <<
        "Pulvériser un produit à base de cuivre (respecter l'étiquette)",
        "Éviter l'arrosage par aspersion",
        "Supprimer les feuilles très atteintes"
      >>,
      prevention |-> <<
        "Semences/plants sains",
        "Désinfection des outils",
        "Éviter de manipuler les plantes mouillées"
      >>,
      symptoms |-> "Petites taches brun-noir, parfois entourées de jaune, sur feuilles et parfois fruits." ],
    [ key |-> "pepper_healthy",
      name |-> "Poivron sain",
      crop |-> "Poivron",
      severity |-> "Aucune",
      treatments |-> <<>>,
      prevention |-> <<
        "Surveillance régulière",
        "Arrosage au pied"
      >>,
      symptoms |-> "" ],
    [ key |-> "potato_early_blight",
      name |-> "Brûlure précoce (pomme de terre)",
      crop |-> "Pomme de terre",
      severity |-> "Modérée",
      treatments |-> <<
        "Fongicide de contact (cuivre ou chlorothalonil) si disponible",
        "Retirer les feuilles très atteintes"
      >>,
      prevention |-> <<
        "Rotation 2 à 3 ans",
        "Éviter excès d'azote",
        "Espacer les plants pour l'aération"
      >>,
      symptoms |-> "Taches brunes avec cercles concentriques sur les feuilles âgées." ],
    [ key |-> "potato_late_blight",
      name |-> "Mildiou de la pomme de terre",
      crop |-> "Pomme de terre",
      severity |-> "Élevée",
      treatments |-> <<
        "Fongicide systémique homologué",
        "Éliminer/enterrer les parties fortement atteintes"
      >>,
      prevention |-> <<
        "Arroser au pied",
        "Éviter l'humidité prolongée sur le feuillage",
        "Utiliser des variétés tolérantes quand c'est possible"
      >>,
      symptoms |-> "Taches brun-gris s'élargissant vite, parfois duvet blanc au revers." ],
    [ key |-> "potato_healthy",
      name |-> "Pomme de terre saine",
      crop |-> "Pomme de terre",
      severity |-> "Aucune",
      treatments |-> <<>>,
      prevention |-> <<
        "Surveillance",
        "Arrosage régulier sans détremper le sol"
      >>,
      symptoms |-> "" ],
    [ key |-> "tomato_bacterial_spot",
      name |-> "Tache bactérienne de la tomate",
      crop |-> "Tomate",
      severity |-> "Modérée",
      treatments |-> <<
        "Traitement cuivre (hydroxyde ou oxichlorure)",
        "Supprimer feuilles atteintes pour limiter la source d'inoculum"
      >>,
      prevention |-> <<
        "Semences certifiées",
        "Désinfecter les outils",
        "Éviter les éclaboussures d'eau"
      >>,
      symptoms |-> "Petites taches sombres, parfois huileuses, sur feuilles et fruits." ],
    [ key |-> "tomato_early_blight",
      name |-> "Brûlure précoce de la tomate",
      crop |-> "Tomate",
      severity |-> "Modérée",
      treatments |-> <<
        "Traitement cuivre",
        "Améliorer l'aération du feuillage"
      >>,
      prevention |-> <<
        "Rotation",
        "Ne pas mouiller le feuillage le soir",
        "Ramasser les débris au sol"
      >>,
      symptoms |-> "Taches brunes avec anneaux concentriques sur feuilles âgées." ],
    [ key |-> "tomato_late_blight",
      name |-> "Tomate " \o EMDASH \o " mildiou",
      crop |-> "Tomate",
      severity |-> "Élevée",
      treatments |-> <<
        "Fongicide systémique (suivre l'étiquette)",
        "Couper les parties très atteintes"
      >>,
      prevention |-> <<
        "Arroser au pied",
        "Espacer les plants",
        "Éviter l'humidité prolongée"
      >>,
      symptoms |-> "Taches brun-gris qui s'élargissent vite, parfois duvet blanc au revers." ],
    [ key |-> "tomato_leaf_mold",
      name |-> "Moisissure des feuilles de la tomate",
      crop |-> "Tomate",
      severity |-> "Modérée",
      treatments |-> <<
        "Pulvérisation soufre ou cuivre",
        "Éclaircir le feuillage"
      >>,
      prevention |-> <<
        "Bonne ventilation",
        "Éviter condensation dans les abris"
      >>,
      symptoms |-> "Tache jaune en dessus, feutrage olive en dessous." ],
    [ key |-> "tomato_septoria_leaf_spot",
      name |-> "Tache foliaire de Septoria (tomate)",
      crop |-> "Tomate",
      severity |-> "Modérée",
      treatments |-> <<
        "Traitement cuivre",
        "Enlever les feuilles basses atteintes"
      >>,
      prevention |-> <<
        "Rotation",
        "Arrosage au pied"
      >>,
      symptoms |-> "Petites taches rondes à centre clair et bord foncé." ],
    [ key |-> "tomato_spider_mites",
      name |-> "Acariens / araignées rouges (tomate)",
      crop |-> "Tomate",
      severity |-> "Modérée",
      treatments |-> <<
        "Pulvérisation de savon noir dilué",
        "Ou huile de Neem (en soirée)"
      >>,
      prevention |-> <<
        "Éviter le stress hydrique",
        "Surveiller le revers des feuilles"
      >>,
      symptoms |-> "Feuilles décolorées, fines toiles, petits points jaunes." ],
    [ key |-> "tomato_target_spot",
      name |-> "Tache cible (tomate)",
      crop |-> "Tomate",
      severity |-> "Modérée",
      treatments |-> <<
        "Traitement cuivre",
        "Éliminer les feuilles atteintes"
      >>,
      prevention |-> <<
        "Aérer",
        "Éviter excès d'azote"
      >>,
      symptoms |-> "Taches rondes avec cercles concentriques." ],
    [ key |-> "tomato_mosaic_virus",
      name |-> "Virus de la mosaïque (tomate)",
      crop |-> "Tomate",
      severity |-> "Élevée",
      treatments |-> <<
        "Détruire les plants très atteints",
        "Limiter les manipulations"
      >>,
      prevention |-> <<
        "Semences saines",
        "Désinfection des outils",
        "Contrôler les vecteurs (pucerons, aleurodes)"
      >>,
      symptoms |-> "Feuilles marbrées vert clair/vert foncé, déformation éventuelle." ],
    [ key |-> "tomato_yellow_leaf_curl_virus",
      name |-> "Virus de l'enroulement jaune (tomate)",
      crop |-> "Tomate",
      severity |-> "Élevée",
      treatments |-> <<
        "Éliminer les plants atteints",
        "Lutter contre les aleurodes (mouches blanches)"
      >>,
      prevention |-> <<
        "Filets anti-insectes",
        "Paillage",
        "Variétés tolérantes"
      >>,
      symptoms |-> "Feuilles jaunes enroulées vers le haut, pousse ralentie." ],
    [ key |-> "tomato_healthy",
      name |-> "Tomate saine",
      crop |-> "Tomate",
      severity |-> "Aucune",
      treatments |-> <<>>,
      prevention |-> <<
        "Surveillance régulière",
        "Bonne irrigation"
      >>,
      symptoms |-> "" ]
  >>

FUNGAL_REPLY ==
    "Pour prévenir les maladies fongiques :herb: :\n"
    \o "1. Arroser au pied (pas sur les feuilles)\n"
    \o "2. Espacer les plants pour que ça sèche vite\n"
    \o "3. Pailler le sol pour éviter les éclaboussures\n"
    \o "4. Enlever les feuilles touchées et les sortir de la parcelle\n"
    \o "5. Faire une rotation des cultures\n"
    \o "6. En saison humide : surveiller souvent pour traiter tôt (cuivre/soufre si autorisé)."

BIO_REPLY ==
    "Traitements biologiques possibles :seedling: :\n"
    \o "- Savon noir dilué (insectes, acariens)\n"
    \o "- Huile de Neem (le soir, éviter fleurs ouvertes)\n"
    \o "- Décoction d'ail ou de neem en prévention\n"
    \o "- Cuivre/bouillie bordelaise (autorité locales)\n"
    \o "- Toujours traiter le matin ou le soir."

WATERING_REPLY ==
    "Bonnes pratiques d'arrosage :droplet::\n"
    \o "1. Arroser au pied, pas sur les feuilles\n"
    \o "2. Le matin (ou le soir s'il fait très chaud)\n"
    \o "3. Garder le sol humide mais non détrempé\n"
    \o "4. Pailler pour réduire l'évaporation :check:"

PREVENTION_REPLY ==
    "Prévention générale des maladies :shield: :\n"
    \o "- Utiliser des semences/plants sains\n"
    \o "- Espacer les plants pour l'aération\n"
    \o "- Arroser au pied\n"
    \o "- Retirer les feuilles malades\n"
    \o "- Pratiquer la rotation des cultures"

TOMATO_REPLY ==
    "Maladies courantes de la tomate :tomato: :\n"
    \o "- Mildiou\n"
    \o "- Tache bactérienne\n"
    \o "- Brûlure précoce\n"
    \o "- Septoriose\n"
    \o "- Virus de la mosaïque\n"
    \o "- Virus de l'enroulement jaune\n"
    \o "Demande par ex. « traitement mildiou tomate » :thumbsup:"

DEFAULT_REPLY ==
    "Je n'ai pas trouvé exactement la maladie dans ton message :sweat_smile:.\n"
    \o "Tu peux écrire :\n"
    \o "- « traitement mildiou tomate »\n"
    \o "- « prévention tache bactérienne poivron »\n"
    \o "- « symptômes brûlure précoce pomme de terre »\n"
    \o "- « bonnes pratiques d'arrosage »"

(***************************************************************************)
(* chatbot.py: MultilingualAgriChatbot                                     *)
(***************************************************************************)

\* _build_index: (lower-cased text, key) for the name, then the crop, of
\* every entry, in the order of DISEASE_INFO
_build_index ==
    LET F[i \in 0..Len(DISEASE_INFO)] ==
            IF i = 0 THEN <<>>
            ELSE LET info == DISEASE_INFO[i]
                 IN  F[i - 1]
                     \o (IF info.name # "" THEN << <<Lower(info.name), info.key>> >> ELSE <<>>)
                     \o (IF info.crop # "" THEN << <<Lower(info.crop), info.key>> >> ELSE <<>>)
    IN  F[Len(DISEASE_INFO)]

_normalize(text) == Strip(Lower(text))

\* the condition table of _find_disease_key: <<alias, keys>>
disease_fr ==
    << <<"tache bactérienne", <<"pepper_bacterial_spot", "tomato_bacterial_spot">> >>,
       <<"mildiou", <<"potato_late_blight", "tomato_late_blight">> >>,
       <<"brûlure précoce", <<"potato_early_blight", "tomato_early_blight">> >>,
       <<"moisissure", <<"tomato_leaf_mold">> >>,
       <<"septoriose", <<"tomato_septoria_leaf_spot">> >>,
       <<"acariens", <<"tomato_spider_mites">> >>,
       <<"tache cible", <<"tomato_target_spot">> >>,
       <<"virus mosaïque", <<"tomato_mosaic_virus">> >>,
       <<"enroulement jaune", <<"tomato_yellow_leaf_curl_virus">> >> >>

\* the crop table of _find_disease_key: <<alias, key prefixes>>
crop_fr ==
    << <<"tomate", <<"tomato_">> >>,
       <<"pomme de terre", <<"potato_">> >>,
       <<"poivron", <<"pepper_">> >>,
       <<"piment", <<"pepper_">> >> >>

\* Tentative 1: crop alias and condition alias both in the message; the
\* first real key that contains the crop prefix ck and dk with its
\* underscores removed
PairedMatch(msg_norm) ==
    FirstResult([ci \in 1..Len(crop_fr) |->
        IF Contains(crop_fr[ci][1], msg_norm)
        THEN FirstResult([di \in 1..Len(disease_fr) |->
            IF Contains(disease_fr[di][1], msg_norm)
            THEN FirstResult([cki \in 1..Len(crop_fr[ci][2]) |->
                FirstResult([dki \in 1..Len(disease_fr[di][2]) |->
                    FirstResult([ri \in 1..Len(DISEASE_INFO) |->
                        LET ck == crop_fr[ci][2][cki]
                            dk == disease_fr[di][2][dki]
                            real_key == DISEASE_INFO[ri].key
                        IN  IF /\ Contains(ck, real_key)
                               /\ Contains(Replace(dk, "_", ""), real_key)
                            THEN real_key
                            ELSE None])])])
            ELSE None])
        ELSE None])

\* a variant of Tentative 2 that looks for the tokens among the words of the
\* message
TokenMatch_whole_words(index, msg_norm) ==
    FirstResult([i \in 1..Len(index) |->
        LET parts == Split(index[i][1])
            words == {Split(msg_norm)[w] : w \in 1..Len(Split(msg_norm))}
            matches == Cardinality({p \in 1..Len(parts) : parts[p] \in words})
        IN  IF matches >= (IF 2 < Len(parts) THEN 2 ELSE Len(parts))
            THEN index[i][2]
            ELSE None])

\* a variant of Tentative 2 that asks for every token of the index text
TokenMatch_all_tokens(index, msg_norm) ==
    FirstResult([i \in 1..Len(index) |->
        LET parts == Split(index[i][1])
            matches == Cardinality({p \in 1..Len(parts) : Contains(parts[p], msg_norm)})
        IN  IF matches >= Len(parts)
            THEN index[i][2]
            ELSE None])

\* Tentative 2: the first index text with at least min(2, len(parts)) of
\* its tokens in the message (sum(1 for p in parts if p in msg_norm) counts
\* every position of parts)
TokenMatch(index, msg_norm) ==
    FirstResult([i \in 1..Len(index) |->
        LET parts == Split(index[i][1])
            matches == Cardinality({p \in 1..Len(parts) : Contains(parts[p], msg_norm)})
        IN  IF matches >= (IF 2 < Len(parts) THEN 2 ELSE Len(parts))
            THEN index[i][2]
            ELSE None])

\* Tentative 3: the first index text that is a substring of the message
SubstringMatch(index, msg_norm) ==
    FirstResult([i \in 1..Len(index) |->
        IF Contains(index[i][1], msg_norm) THEN index[i][2] ELSE None])

_find_disease_key(index, msg_norm) ==
    LET a1 == PairedMatch(msg_norm)
        a2 == TokenMatch(index, msg_norm)
        a3 == SubstringMatch(index, msg_norm)
    IN  IF a1 # None THEN a1
        ELSE IF a2 # None THEN a2
        ELSE a3

FUNGAL_WORDS == {"maladie fongique", "fongique", "champignon", "champignons"}

BIO_WORDS == {"traitement biologique", "traitements biologiques", "bio"}

WATERING_WORDS == {"arrosage", "arroser"}

GENERAL_PREVENTION_WORDS == {"prevention", "prévention", "eviter maladie", "éviter"}

\* any(word in msg_norm for word in words)
AnyWord(words, msg_norm) == \E word \in words : Contains(word, msg_norm)

\* the watering rule tried before the fungal and the biological rules
_general_reply_watering_first(msg_norm) ==
    IF AnyWord(WATERING_WORDS, msg_norm) THEN WATERING_REPLY
    ELSE IF AnyWord(FUNGAL_WORDS, msg_norm) THEN FUNGAL_REPLY
    ELSE IF AnyWord(BIO_WORDS, msg_norm) THEN BIO_REPLY
    ELSE IF AnyWord(GENERAL_PREVENTION_WORDS, msg_norm) THEN PREVENTION_REPLY
    ELSE IF Contains("tomate", msg_norm) /\ Contains("maladie", msg_norm)
    THEN TOMATO_REPLY
    ELSE DEFAULT_REPLY

_general_reply(msg_norm) ==
    IF AnyWord(FUNGAL_WORDS, msg_norm) THEN FUNGAL_REPLY
    ELSE IF AnyWord(BIO_WORDS, msg_norm) THEN BIO_REPLY
    ELSE IF AnyWord(WATERING_WORDS, msg_norm) THEN WATERING_REPLY
    ELSE IF AnyWord(GENERAL_PREVENTION_WORDS, msg_norm) THEN PREVENTION_REPLY
    ELSE IF Contains("tomate", msg_norm) /\ Contains("maladie", msg_norm)
    THEN TOMATO_REPLY
    ELSE DEFAULT_REPLY

\* DISEASE_INFO.get(key, {}) followed by the data.get(field, default) reads
InfoGet(key) ==
    IF \E i \in 1..Len(DISEASE_INFO) : DISEASE_INFO[i].key = key
    THEN DISEASE_INFO[CHOOSE i \in 1..Len(DISEASE_INFO) : DISEASE_INFO[i].key = key]
    ELSE [key |-> key, name |-> key, crop |-> "", severity |-> "Inconnue",
          treatments |-> <<>>, prevention |-> <<>>, symptoms |-> ""]

TREATMENT_WORDS == {"traitement", "soigner", "traiter"}

PREVENTION_WORDS == {"prevention", "prévention", "eviter", "éviter"}

SYMPTOM_WORDS == {"symptome", "symptômes", "reconnaitre", "reconnaître"}

\* treatments[:2]
FirstTwo(list) == SubSeq(list, 1, IF Len(list) < 2 THEN Len(list) ELSE 2)

TreatmentAnswer(data) ==
    IF data.treatments # <<>>
    THEN Join(<<"Traitement pour **" \o data.name \o "** :">>
              \o [i \in 1..Len(data.treatments) |-> "  · " \o data.treatments[i]]
              \o <<"\nSévérité : **" \o data.severity \o "**">>, "\n")
    ELSE "Pour **" \o data.name \o "**, pas de traitement spécifique enregistré.\n"
         \o "Supprime les parties atteintes et améliore l'aération."

PreventionAnswer(data) ==
    IF data.prevention # <<>>
    THEN Join(<<"Prévention pour **" \o data.name \o "** :">>
              \o [i \in 1..Len(data.prevention) |-> "  · " \o data.prevention[i]], "\n")
    ELSE "Prévention générale pour **" \o data.name \o "** :\n"
         \o "Rotation, arrosage au pied, enlever les feuilles malades."

\* a variant without the sentence for an entry that has no symptoms
SymptomAnswer_no_substitute(data) ==
    "Symptômes de **" \o data.name \o "** :mag: :\n" \o data.symptoms

SymptomAnswer(data) ==
    IF data.symptoms # ""
    THEN "Symptômes de **" \o data.name \o "** :mag: :\n" \o data.symptoms
    ELSE "Symptômes de **" \o data.name
         \o "** : taches sur feuilles et affaiblissement de la plante."

FactSheet(data) ==
    Join(<<":clipboard: Maladie : **" \o data.name \o "**",
           "Sévérité : " \o data.severity>>
         \o (IF data.symptoms # "" THEN <<"Symptômes : " \o data.symptoms>> ELSE <<>>)
         \o (IF data.treatments # <<>>
             THEN <<"Traitements : " \o Join(FirstTwo(data.treatments), "; ")>>
             ELSE <<>>)
         \o (IF data.prevention # <<>>
             THEN <<"Prévention : " \o Join(FirstTwo(data.prevention), "; ")>>
             ELSE <<>>), "\n")

\* the prevention keywords tested before the treatment keywords
_format_disease_answer_prevention_first(key, msg_norm) ==
    IF AnyWord(PREVENTION_WORDS, msg_norm) THEN PreventionAnswer(InfoGet(key))
    ELSE IF AnyWord(TREATMENT_WORDS, msg_norm) THEN TreatmentAnswer(InfoGet(key))
    ELSE IF AnyWord(SYMPTOM_WORDS, msg_norm) THEN SymptomAnswer(InfoGet(key))
    ELSE FactSheet(InfoGet(key))

_format_disease_answer(key, msg_norm) ==
    IF AnyWord(TREATMENT_WORDS, msg_norm) THEN TreatmentAnswer(InfoGet(key))
    ELSE IF AnyWord(PREVENTION_WORDS, msg_norm) THEN PreventionAnswer(InfoGet(key))
    ELSE IF AnyWord(SYMPTOM_WORDS, msg_norm) THEN SymptomAnswer(InfoGet(key))
    ELSE FactSheet(InfoGet(key))

SUGGESTIONS ==
    <<"traitement mildiou tomate",
      "prévention tache bactérienne poivron",
      "bonnes pratiques d'arrosage">>

\* language or self.default_lang
OrDefault(language, default) ==
    IF language = None \/ language = "" THEN default ELSE language

\* the formatter and the generic reply given the message as received instead
\* of the normalized message
generate_response_raw_message(index, default_lang_, message, session_id, language, extra_context, now) ==
    LET msg_norm == _normalize(message)
        disease_key == _find_disease_key(index, msg_norm)
        resolved == disease_key # None /\ disease_key # ""
    IN  [ret |->
            [response |-> IF resolved
                          THEN _format_disease_answer(disease_key, message)
                          ELSE _general_reply(message),
             language |-> OrDefault(language, default_lang_),
             intent |-> IF resolved THEN "disease_info" ELSE "general",
             suggestions |-> SUGGESTIONS,
             context |-> extra_context
                         @@ [session_id |-> session_id, topic |-> "plant_disease_assistant"],
             timestamp |-> now],
         locals |-> [msg_norm |-> msg_norm, disease_key |-> disease_key]]

\* the knowledge base consulted only for the language of the bot, any other
\* language getting the generic reply
generate_response_by_language(index, default_lang_, message, session_id, language, extra_context, now) ==
    LET msg_norm == _normalize(message)
        disease_key == IF OrDefault(language, default_lang_) = default_lang_
                       THEN _find_disease_key(index, msg_norm)
                       ELSE None
        resolved == disease_key # None /\ disease_key # ""
    IN  [ret |->
            [response |-> IF resolved
                          THEN _format_disease_answer(disease_key, msg_norm)
                          ELSE _general_reply(msg_norm),
             language |-> OrDefault(language, default_lang_),
             intent |-> IF resolved THEN "disease_info" ELSE "general",
             suggestions |-> SUGGESTIONS,
             context |-> extra_context
                         @@ [session_id |-> session_id, topic |-> "plant_disease_assistant"],
             timestamp |-> now],
         locals |-> [msg_norm |-> msg_norm, disease_key |-> disease_key]]

\* generate_response: ret is the returned dict, locals the handler's local
\* variables at the return; now is the value of datetime.now(), extra_context
\* a dict (a function on its keys; <<>> for None and for {})
generate_response(index, default_lang_, message, session_id, language, extra_context, now) ==
    LET msg_norm == _normalize(message)
        disease_key == _find_disease_key(index, msg_norm)
        resolved == disease_key # None /\ disease_key # ""
    IN  [ret |->
            [response |-> IF resolved
                          THEN _format_disease_answer(disease_key, msg_norm)
                          ELSE _general_reply(msg_norm),
             language |-> OrDefault(language, default_lang_),
             intent |-> IF resolved THEN "disease_info" ELSE "general",
             suggestions |-> SUGGESTIONS,
             context |-> extra_context
                         @@ [session_id |-> session_id, topic |-> "plant_disease_assistant"],
             timestamp |-> now],
         locals |-> [msg_norm |-> msg_norm, disease_key |-> disease_key]]

\* generate_chat_response, called with the bot of _ChatAdapter
generate_chat_response(index, default_lang_, message, session_id, language, extra_context, now) ==
    generate_response(index, default_lang_, message, session_id, language, extra_context, now)

(***************************************************************************)
(* main.py: the catalogue and the prediction-to-catalog reconciler         *)
(***************************************************************************)

\* the literal of the module body
DATASET_DISEASES_init ==
  <<
    [ id |-> "pepper_bacterial_spot", plant_en |-> "Pepper (bell)", plant_fr |-> "Poivron",
      disease_en |-> "Bacterial spot", disease_fr |-> "Tache bactérienne",
      severity |-> "Modérée", season |-> "Toute saison" ],
    [ id |-> "pepper_healthy", plant_en |-> "Pepper (bell)", plant_fr |-> "Poivron",
      disease_en |-> "Healthy", disease_fr |-> "Sain",
      severity |-> "Aucune", season |-> "Toute saison" ],
    [ id |-> "potato_early_blight", plant_en |-> "Potato", plant_fr |-> "Pomme de terre",
      disease_en |-> "Early blight", disease_fr |-> "Brûlure précoce",
      severity |-> "Modérée", season |-> "Saison humide" ],
    [ id |-> "potato_late_blight", plant_en |-> "Potato", plant_fr |-> "Pomme de terre",
      disease_en |-> "Late blight", disease_fr |-> "Brûlure tardive",
      severity |-> "Élevée", season |-> "Saison humide" ],
    [ id |-> "potato_healthy", plant_en |-> "Potato", plant_fr |-> "Pomme de terre",
      disease_en |-> "Healthy", disease_fr |-> "Sain",
      severity |-> "Aucune", season |-> "Toute saison" ],
    [ id |-> "tomato_bacterial_spot", plant_en |-> "Tomato", plant_fr |-> "Tomate",
      disease_en |-> "Bacterial spot", disease_fr |-> "Tache bactérienne",
      severity |-> "Modérée", season |-> "Toute saison" ],
    [ id |-> "tomato_early_blight", plant_en |-> "Tomato", plant_fr |-> "Tomate",
      disease_en |-> "Early blight", disease_fr |-> "Brûlure précoce",
      severity |-> "Modérée", season |-> "Saison humide" ],
    [ id |-> "tomato_leaf_mold", plant_en |-> "Tomato", plant_fr |-> "Tomate",
      disease_en |-> "Leaf mold", disease_fr |-> "Moisissure des feuilles",
      severity |-> "Modérée", season |-> "Saison humide" ],
    [ id |-> "tomato_septoria_leaf_spot", plant_en |-> "Tomato", plant_fr |-> "Tomate",
      disease_en |-> "Septoria leaf spot", disease_fr |-> "Tache foliaire de Septoria",
      severity |-> "Modérée", season |-> "Saison humide" ],
    [ id |-> "tomato_spider_mites", plant_en |-> "Tomato", plant_fr |-> "Tomate",
      disease_en |-> "Spider mites", disease_fr |-> "Acariens",
      severity |-> "Modérée", season |-> "Saison sèche" ],
    [ id |-> "tomato_target_spot", plant_en |-> "Tomato", plant_fr |-> "Tomate",
      disease_en |-> "Target spot", disease_fr |-> "Tache cible",
      severity |-> "Modérée", season |-> "Toute saison" ],
    [ id |-> "tomato_mosaic_virus", plant_en |-> "Tomato", plant_fr |-> "Tomate",
      disease_en |-> "Tomato mosaic virus", disease_fr |-> "Virus de la mosaïque",
      severity |-> "Élevée", season |-> "Toute saison" ],
    [ id |-> "tomato_yellow_leaf_curl_virus", plant_en |-> "Tomato", plant_fr |-> "Tomate",
      disease_en |-> "Yellow leaf curl virus", disease_fr |-> "Virus de l'enroulement jaune",
      severity |-> "Élevée", season |-> "Toute saison" ],
    [ id |-> "tomato_healthy", plant_en |-> "Tomato", plant_fr |-> "Tomate",
      disease_en |-> "Healthy", disease_fr |-> "Sain",
      severity |-> "Aucune", season |-> "Toute saison" ]
  >>

CLASS_ALIASES ==
  <<
    <<"Pepper__bell___Bacterial_spot", "pepper_bacterial_spot">>,
    <<"Pepper__bell___healthy", "pepper_healthy">>,
    <<"Potato___Early_blight", "potato_early_blight">>,
    <<"Potato___Late_blight", "potato_late_blight">>,
    <<"Potato___healthy", "potato_healthy">>,
    <<"Tomato_Bacterial_spot", "tomato_bacterial_spot">>,
    <<"Tomato_Early_blight", "tomato_early_blight">>,
    <<"Tomato_Late_blight", "tomato_late_blight">>,
    <<"Tomato_Leaf_Mold", "tomato_leaf_mold">>,
    <<"Tomato_Septoria_leaf_spot", "tomato_septoria_leaf_spot">>,
    <<"Tomato_Spider_mites_Two_spotted_spider_mite", "tomato_spider_mites">>,
    <<"Tomato__Target_Spot", "tomato_target_spot">>,
    <<"Tomato__Tomato_YellowLeaf__Curl_Virus", "tomato_yellow_leaf_curl_virus">>,
    <<"Tomato__Tomato_mosaic_virus", "tomato_mosaic_virus">>,
    <<"Tomato_healthy", "tomato_healthy">>
  >>

\* Python truthiness of an Optional[str]
Truthy(v) == v # None /\ v # ""

\* the label normalisation of map_prediction_to_catalog
LabelKey(disease_name_raw) ==
    Lower(Strip(Replace(Replace(Replace(disease_name_raw, "___", "_"), "__", "_"), " ", "_")))

\* the first test of an iteration of the second loop: id match, either
\* direction
IdMatch(key, item) == Contains(key, item.id) \/ Contains(item.id, key)

\* the second test of an iteration: English condition text, either direction
ConditionMatch(key, item) ==
    LET disease_en_norm == Replace(Lower(item.disease_en), " ", "_")
    IN  Contains(key, disease_en_norm) \/ Contains(disease_en_norm, key)

\* one iteration of the second loop returns item
FuzzyItem(key, item) == IdMatch(key, item) \/ ConditionMatch(key, item)

\* the first loop: the item whose id is disease_key, NoneEntry if the loop
\* ends without returning
ExactLoop(disease_key) ==
    IF \E i \in 1..Len(DATASET_DISEASES) :
           Truthy(disease_key) /\ DATASET_DISEASES[i].id = disease_key
    THEN DATASET_DISEASES[CHOOSE i \in 1..Len(DATASET_DISEASES) :
            /\ DATASET_DISEASES[i].id = disease_key
            /\ \A j \in 1..(i - 1) : DATASET_DISEASES[j].id # disease_key]
    ELSE NoneEntry

\* the second loop: the first item one of whose two tests holds, NoneEntry
\* if the loop ends without returning
FuzzyLoop(key) ==
    IF \E i \in 1..Len(DATASET_DISEASES) : FuzzyItem(key, DATASET_DISEASES[i])
    THEN DATASET_DISEASES[CHOOSE i \in 1..Len(DATASET_DISEASES) :
            /\ FuzzyItem(key, DATASET_DISEASES[i])
            /\ \A j \in 1..(i - 1) : ~FuzzyItem(key, DATASET_DISEASES[j])]
    ELSE NoneEntry

\* the fuzzy rules tried before the exact key
map_prediction_fuzzy_first(disease_key, disease_name_raw) ==
    IF ~Truthy(disease_key) /\ ~Truthy(disease_name_raw) THEN NoneEntry
    ELSE IF Truthy(disease_name_raw) /\ FuzzyLoop(LabelKey(disease_name_raw)) # NoneEntry
    THEN FuzzyLoop(LabelKey(disease_name_raw))
    ELSE ExactLoop(disease_key)

map_prediction_to_catalog(disease_key, disease_name_raw) ==
    IF ~Truthy(disease_key) /\ ~Truthy(disease_name_raw) THEN NoneEntry
    ELSE IF ExactLoop(disease_key) # NoneEntry THEN ExactLoop(disease_key)
    ELSE IF Truthy(disease_name_raw) THEN FuzzyLoop(LabelKey(disease_name_raw))
    ELSE NoneEntry

(***************************************************************************)
(* main.py: the chat endpoint                                              *)
(***************************************************************************)

DEFAULT_LANG == "fr"

MAX_MESSAGE_LENGTH == 1000

\* a dict argument that is None or {} (the code reads both through "or {}")
NoDict == <<>>

\* ChatMessage: the field constraints and validate_message; the validated
\* model, or Invalid when pydantic raises (FastAPI answers 422)
Invalid == [invalid |-> TRUE]

\* the model without validate_message
ChatMessage_unvalidated(message, language, context) ==
    IF /\ Len(message) >= 1
       /\ Len(message) <= MAX_MESSAGE_LENGTH
       /\ language \in {None, "fr", "wo", "pu"}
    THEN [message |-> message, language |-> language, context |-> context]
    ELSE Invalid

ChatMessage(message, language, context) ==
    IF /\ Len(message) >= 1
       /\ Len(message) <= MAX_MESSAGE_LENGTH
       /\ Strip(message) # ""
       /\ language \in {None, "fr", "wo", "pu"}
    THEN [message |-> Strip(message), language |-> language, context |-> context]
    ELSE Invalid

\* _ChatAdapter.reply followed by the rest of chat_with_bot: the HTTP answer
chat_with_bot(has, index, default_lang_, message, now) ==
    LET session_id == IF "session_id" \in DOMAIN message.context
                      THEN message.context.session_id
                      ELSE "default"
        lang == OrDefault(message.language, DEFAULT_LANG)
    IN  IF ~has
        THEN [status |-> 501, detail |-> "Service chatbot non disponible."]
        ELSE LET reply == generate_chat_response(index, default_lang_, message.message,
                                                 session_id, lang, message.context, now).ret
             IN  [status |-> 200,
                  body |-> [timestamp |-> now, session_id |-> session_id, success |-> TRUE]
                           @@ reply]

(***************************************************************************)
(* disease_detector.py: the knowledge base and PlantDiseaseDetector        *)
(***************************************************************************)

\* stand-ins for the characters outside Latin-1 in the tables
ENDASH == "¬"

HOOKED_D == "ð"

\* the literal of the module body: key :> entry
detector_DISEASE_INFO_init ==
       ("pepper_healthy" :>
        [ fr |-> "Piment sain", wo |-> "Pimó wér", pu |-> "Piment cellal",
          severity |-> "Aucune", crop |-> "Piment",
          treatments |-> <<>>,
          prevention |-> <<"Hygiène de la parcelle", "Surveillance régulière">> ])
    @@ ("pepper_bacterial_spot" :>
        [ fr |-> "Piment ¯ tache bactérienne", wo |-> "Pimó ¯ tàkk bakteriya", pu |-> "Piment tache bakteriya",
          severity |-> "Modérée", crop |-> "Piment",
          treatments |-> <<"copper_spray", "crop_rotation">>,
          prevention |-> <<"Semences saines", "Éviter l'aspersion", "Désinfecter les outils">> ])
    @@ ("potato_healthy" :>
        [ fr |-> "Pomme de terre saine", wo |-> "Pomme de terre wér", pu |-> "Pomme de terre cellal",
          severity |-> "Aucune", crop |-> "Pomme de terre",
          treatments |-> <<>>,
          prevention |-> <<"Surveillance", "Éviter excès d'humidité">> ])
    @@ ("potato_early_blight" :>
        [ fr |-> "Pomme de terre ¯ alternariose", wo |-> "Ñawu weñ (pomme de terre)", pu |-> "Early blight",
          severity |-> "Modérée", crop |-> "Pomme de terre",
          treatments |-> <<"fungicide_copper", "neem_oil">>,
          prevention |-> <<"Rotation", "Éviter les blessures">> ])
    @@ ("potato_late_blight" :>
        [ fr |-> "Pomme de terre ¯ mildiou", wo |-> "Mildiou", pu |-> "Late blight",
          severity |-> "Élevée", crop |-> "Pomme de terre",
          treatments |-> <<"fungicide_systemic">>,
          prevention |-> <<"Arrosage au pied", "Retirer feuilles infectées">> ])
    @@ ("tomato_healthy" :>
        [ fr |-> "Tomate saine", wo |-> "Tomaat wér", pu |-> "Tomate cellal",
          severity |-> "Aucune", crop |-> "Tomate",
          treatments |-> <<>>,
          prevention |-> <<"Surveillance", "Éviter humidité excessive">> ])
    @@ ("tomato_bacterial_spot" :>
        [ fr |-> "Tomate ¯ tache bactérienne", wo |-> "Tomaat ¯ tàkk bakteriya", pu |-> "Tomate tache bakteriya",
          severity |-> "Modérée", crop |-> "Tomate",
          treatments |-> <<"copper_spray">>,
          prevention |-> <<"Semences certifiées", "Désinfecter les outils">> ])
    @@ ("tomato_early_blight" :>
        [ fr |-> "Tomate ¯ alternariose", wo |-> "Ñawu weñ (tomate)", pu |-> "Early blight",
          severity |-> "Modérée", crop |-> "Tomate",
          treatments |-> <<"fungicide_copper", "neem_oil">>,
          prevention |-> <<"Rotation", "Aération">> ])
    @@ ("tomato_late_blight" :>
        [ fr |-> "Tomate ¯ mildiou", wo |-> "Mildiou", pu |-> "Late blight",
          severity |-> "Élevée", crop |-> "Tomate",
          treatments |-> <<"fungicide_systemic">>,
          prevention |-> <<"Arrosage au pied", "Limiter humidité">> ])
    @@ ("tomato_leaf_mold" :>
        [ fr |-> "Tomate ¯ feutrage", wo |-> "Puur weex", pu |-> "Huðo peewo",
          severity |-> "Modérée", crop |-> "Tomate",
          treatments |-> <<"sulfur_spray">>,
          prevention |-> <<"Ventilation", "Éclaircissage">> ])
    @@ ("tomato_septoria_leaf_spot" :>
        [ fr |-> "Tomate ¯ septoriose", wo |-> "Septoria", pu |-> "Septoria",
          severity |-> "Modérée", crop |-> "Tomate",
          treatments |-> <<"copper_spray", "neem_oil">>,
          prevention |-> <<"Rotation", "Paillage">> ])
    @@ ("tomato_spider_mites" :>
        [ fr |-> "Tomate ¯ araignées rouges", wo |-> "Xajj", pu |-> "Kooke",
          severity |-> "Modérée", crop |-> "Tomate",
          treatments |-> <<"neem_oil", "soap_solution">>,
          prevention |-> <<"Éviter stress hydrique", "Surveiller revers feuilles">> ])
    @@ ("tomato_target_spot" :>
        [ fr |-> "Tomate ¯ tache en cible", wo |-> "Tàkk bu dalal", pu |-> "Target spot",
          severity |-> "Modérée", crop |-> "Tomate",
          treatments |-> <<"copper_spray">>,
          prevention |-> <<"Aération", "Équilibre azote">> ])
    @@ ("tomato_mosaic_virus" :>
        [ fr |-> "Tomate ¯ virus de la mosaïque", wo |-> "Wirùs mosayik", pu |-> "Virus mosaïque",
          severity |-> "Élevée", crop |-> "Tomate",
          treatments |-> <<"remove_infected", "insecticide_vectors">>,
          prevention |-> <<"Semences saines", "Hygiène", "Contrôle vecteurs">> ])
    @@ ("tomato_yellow_leaf_curl_virus" :>
        [ fr |-> "Tomate ¯ TYLCV", wo |-> "TYLCV", pu |-> "TYLCV",
          severity |-> "Élevée", crop |-> "Tomate",
          treatments |-> <<"insecticide_vectors", "remove_infected">>,
          prevention |-> <<"Filets anti-insectes", "Contrôle aleurodes">> ])

\* the literal of the module body: treatment id :> language :> record
TREATMENTS_DB_init ==
       ("fungicide_copper" :> [ fr |->
        [ name |-> "Bouillie bordelaise", description |-> "Fongicide à base de cuivre",
          application |-> "Tous les 7¬10 jours", organic |-> TRUE ] ])
    @@ ("copper_spray" :> [ fr |->
        [ name |-> "Cuivre (hydroxyde/oxychlorure)", description |-> "Antibactérien / fongique",
          application |-> "Suivre l'étiquette", organic |-> TRUE ] ])
    @@ ("fungicide_systemic" :> [ fr |->
        [ name |-> "Fongicide systémique", description |-> "Curatif homologué",
          application |-> "Suivre l'étiquette", organic |-> FALSE ] ])
    @@ ("neem_oil" :> [ fr |->
        [ name |-> "Huile de Neem", description |-> "Insecticide/fongique bio",
          application |-> "Hebdomadaire, le soir", organic |-> TRUE ] ])
    @@ ("sulfur_spray" :> [ fr |->
        [ name |-> "Soufre", description |-> "Oïdium / feutrage",
          application |-> "Pulvérisation foliaire", organic |-> TRUE ] ])
    @@ ("soap_solution" :> [ fr |->
        [ name |-> "Savon noir dilué", description |-> "Acariens / pucerons",
          application |-> "Soir, rincer après 24h", organic |-> TRUE ] ])
    @@ ("remove_infected" :> [ fr |->
        [ name |-> "Arrachage des plants atteints", description |-> "Limiter la propagation",
          application |-> "Évacuer hors de la parcelle", organic |-> TRUE ] ])
    @@ ("insecticide_vectors" :> [ fr |->
        [ name |-> "Contrôle des vecteurs", description |-> "Aleurodes / pucerons",
          application |-> "Pièges + produit homologué", organic |-> FALSE ] ])
    @@ ("crop_rotation" :> [ fr |->
        [ name |-> "Rotation des cultures", description |-> "Brise les cycles des pathogènes",
          application |-> "Tous les 2¬3 saisons", organic |-> TRUE ] ])

\* an empty dict
EmptyDict == <<>>

\* d.get(k, default)
Get(d, k, default) == IF k \in DOMAIN d THEN d[k] ELSE default

\* Python truthiness of a dict or None
TruthyDict(d) == d # NoneEntry /\ DOMAIN d # {}

\* list[:n]
Slice(list, n) == SubSeq(list, 1, IF Len(list) < n THEN Len(list) ELSE n)

\* CLASS_ALIASES.get(dir_label, dir_label)
_dir_to_key(dir_label) ==
    IF \E i \in 1..Len(CLASS_ALIASES) : CLASS_ALIASES[i][1] = dir_label
    THEN CLASS_ALIASES[CHOOSE i \in 1..Len(CLASS_ALIASES) : CLASS_ALIASES[i][1] = dir_label][2]
    ELSE dir_label

\* <<raw_label, key>> of a class index (indices start at 0)
_get_safe_class_name(class_names, idx) ==
    IF Len(class_names) = 0 \/ idx >= Len(class_names)
    THEN <<"unknown", "unknown">>
    ELSE <<class_names[idx + 1], _dir_to_key(class_names[idx + 1])>>

UNKNOWN_NAMES ==
    [fr |-> "Maladie non identifiée", wo |-> "Xamul", pu |-> "Xamul"]

\* a variant that always answers in French
_name_localized_french_only(key, lang) ==
    IF key = "unknown"
    THEN Get(UNKNOWN_NAMES, lang, "Maladie non identifiée")
    ELSE LET meta == Get(detector_DISEASE_INFO, key, EmptyDict)
         IN  Get(meta, "fr", "Maladie non identifiée")

\* a variant without the last default
_name_localized_no_default(key, lang) ==
    IF key = "unknown"
    THEN Get(UNKNOWN_NAMES, lang, "Maladie non identifiée")
    ELSE LET meta == Get(detector_DISEASE_INFO, key, EmptyDict)
         IN  Get(meta, lang, Get(meta, "fr", ""))

_name_localized(key, lang) ==
    IF key = "unknown"
    THEN Get(UNKNOWN_NAMES, lang, "Maladie non identifiée")
    ELSE LET meta == Get(detector_DISEASE_INFO, key, EmptyDict)
         IN  Get(meta, lang, Get(meta, "fr", "Maladie non identifiée"))

\* data of one treatment id: the record of lang, or else the French one
TreatmentData(t, lang) ==
    LET rec == Get(TREATMENTS_DB, t, EmptyDict)
        own == Get(rec, lang, NoneEntry)
    IN  IF TruthyDict(own) THEN own ELSE Get(rec, "fr", NoneEntry)

\* a variant that lists the records in reverse order
_treatments_localized_reversed(key, lang) ==
    IF key = "unknown" THEN <<>>
    ELSE LET meta == Get(detector_DISEASE_INFO, key, EmptyDict)
             ids == Get(meta, "treatments", <<>>)
             F[i \in 0..Len(ids)] ==
                 IF i = 0 THEN <<>>
                 ELSE LET data == TreatmentData(ids[i], lang)
                      IN  IF TruthyDict(data) THEN <<data>> \o F[i - 1] ELSE F[i - 1]
         IN  F[Len(ids)]

_treatments_localized(key, lang) ==
    IF key = "unknown" THEN <<>>
    ELSE LET meta == Get(detector_DISEASE_INFO, key, EmptyDict)
             ids == Get(meta, "treatments", <<>>)
             F[i \in 0..Len(ids)] ==
                 IF i = 0 THEN <<>>
                 ELSE LET data == TreatmentData(ids[i], lang)
                      IN  IF TruthyDict(data) THEN Append(F[i - 1], data) ELSE F[i - 1]
         IN  F[Len(ids)]

\* one element of top_predictions
TopPrediction(self, idx, conf, language) ==
    LET raw_label == _get_safe_class_name(self.class_names, idx)[1]
        norm_key == _get_safe_class_name(self.class_names, idx)[2]
    IN  [disease |-> IF norm_key # "unknown"
                     THEN _name_localized(norm_key, language)
                     ELSE Replace(raw_label, "_", " "),
         confidence |-> conf,
         severity |-> Get(Get(detector_DISEASE_INFO, norm_key, EmptyDict), "severity", "Inconnue"),
         disease_key |-> norm_key,
         raw_label |-> raw_label]

\* the dict of the except branch
PredictionError(e, now) ==
    [error |-> e,
     disease_name |-> "Erreur de prédiction",
     confidence |-> 0,
     severity |-> "Inconnue",
     affected_crop |-> "Non spécifié",
     treatments |-> <<>>,
     prevention_tips |-> <<>>,
     timestamp |-> now,
     success |-> FALSE]

\* predict.  self is the detector; outcome is what preprocess_image and the
\* network do with the image: [kind |-> "raise", error] or
\* [kind |-> "probs", order, confidence], order being argsort(probs)[::-1]
\* and confidence the probability of each index of order
predict(self, outcome, language, topk, now) ==
    IF ~self.is_loaded \/ self.model = None
    THEN [raise |-> "RuntimeError"]
    ELSE LET lang == IF language \notin {"fr", "wo", "pu"} THEN "fr" ELSE language
             k == IF topk < 1 THEN 1 ELSE topk
         IN  IF outcome.kind = "raise"
             THEN [ret |-> PredictionError(outcome.error, now)]
             ELSE LET top_indices == Slice(outcome.order, k)
                      top_predictions ==
                          [i \in 1..Len(top_indices) |->
                              TopPrediction(self, top_indices[i], outcome.confidence[i], lang)]
                      best_idx == top_indices[1]
                      best_raw == _get_safe_class_name(self.class_names, best_idx)[1]
                      best_key == _get_safe_class_name(self.class_names, best_idx)[2]
                      best_conf == outcome.confidence[1]
                      display_name ==
                          IF best_key = "unknown"
                          THEN Replace(IF best_raw # "" THEN best_raw
                                       ELSE "Maladie non identifiée", "_", " ")
                          ELSE _name_localized(best_key, lang)
                      meta == Get(detector_DISEASE_INFO, best_key, EmptyDict)
                  IN  [ret |->
                        [disease_key |-> best_key,
                         disease_name |-> display_name,
                         confidence |-> best_conf,
                         severity |-> Get(meta, "severity", "Inconnue"),
                         affected_crop |-> Get(meta, "crop", "Non spécifié"),
                         treatments |-> _treatments_localized(best_key, lang),
                         prevention_tips |-> Slice(Get(meta, "prevention", <<>>), 5),
                         top_predictions |-> top_predictions,
                         requires_action |-> ~Contains("healthy", best_key),
                         timestamp |-> now,
                         model_version |-> self.model_version,
                         success |-> TRUE]]

\* the class list of the training set, in the order of CLASS_ALIASES
DefaultClassNames == [i \in 1..Len(CLASS_ALIASES) |-> CLASS_ALIASES[i][1]]

\* len(set(CLASS_ALIASES.values()))
NumAliasKeys == Cardinality({CLASS_ALIASES[i][2] : i \in 1..Len(CLASS_ALIASES)})

\* the attributes set at the top of __init__
NewDetector ==
    [model |-> None, outputs |-> 0, class_names |-> <<>>,
     is_loaded |-> FALSE, model_version |-> "1.0.0"]

\* _load_metadata.  fs.metadata is what metadata.json holds: kind "missing",
\* "classes" (the values ordered by integer key), "class_names", "other"
\* (neither field) or "corrupt"; a model_name, when present, becomes the
\* version
_load_metadata(self, fs) ==
    LET meta == fs.metadata
    IN  IF meta.kind = "missing" \/ meta.kind = "corrupt"
        THEN [self EXCEPT !.class_names = DefaultClassNames]
        ELSE LET named == [self EXCEPT !.class_names =
                              IF meta.kind \in {"classes", "class_names"}
                              THEN meta.names
                              ELSE DefaultClassNames]
             IN  IF "model_name" \in DOMAIN meta
                 THEN [named EXCEPT !.model_version = meta.model_name]
                 ELSE named

\* _try_load_model.  fs is the model directory: exists, keras and h5
\* ("ok", "corrupt" or "missing"), outputs (the size of the network's
\* output), metadata and smoke_ok (the test prediction succeeds)
_try_load_model(self, fs) ==
    IF ~fs.exists THEN self
    ELSE LET file == IF fs.keras = "ok" THEN "model.keras"
                     ELSE IF fs.h5 = "ok" THEN "model.h5"
                     ELSE None
         IN  IF file = None THEN self
             ELSE LET withModel == [self EXCEPT !.model = file, !.outputs = fs.outputs]
                      withMeta == _load_metadata(withModel, fs)
                  IN  [withMeta EXCEPT !.is_loaded = fs.smoke_ok]

\* _build_fallback_model; fs.fallback_ok: EfficientNetB0 can be built
_build_fallback_model(self, fs) ==
    IF fs.fallback_ok
    THEN [self EXCEPT !.model = "fallback", !.outputs = NumAliasKeys,
                      !.class_names = DefaultClassNames, !.is_loaded = TRUE]
    ELSE [self EXCEPT !.is_loaded = FALSE]

\* PlantDiseaseDetector.__init__
PlantDiseaseDetector(model_path, fs) ==
    LET tried == IF Truthy(model_path) THEN _try_load_model(NewDetector, fs) ELSE NewDetector
    IN  IF ~tried.is_loaded THEN _build_fallback_model(tried, fs) ELSE tried


(***************************************************************************)
(* main.py: start-up and the detection endpoint                            *)
(***************************************************************************)

MULTIPART_MESSAGE == "python-multipart non installé. Exécutez: pip install python-multipart"

MODEL_PATH == "models/agridetect_model"

\* lifespan.  env is the environment of the process: valid (validate_env),
\* available (DETECTOR_AVAILABLE) and fs, the model directory.  The result
\* is <<DETECTOR, MODEL_LOAD_ERROR>>
lifespan(env) ==
    IF ~env.valid THEN <<NoneEntry, "Environnement invalide">>
    ELSE IF ~env.available THEN <<NoneEntry, "Module de détection non disponible">>
    ELSE LET detector == PlantDiseaseDetector(MODEL_PATH, env.fs)
         IN  IF detector.is_loaded
             THEN <<detector, None>>
             ELSE <<detector, "Modèle non chargé (is_loaded=False)">>

\* an HTTPException
HTTPException(status_code, detail) == [status |-> status_code, detail |-> detail]

\* _open_image_safe: None when the image is returned, else the exception.
\* contents is the kind of bytes read from the upload
_open_image_safe(contents) ==
    IF contents = "empty" THEN HTTPException(400, "Fichier vide.")
    ELSE IF contents = "heavy" THEN HTTPException(413, "Image trop lourde")
    ELSE IF contents = "wide"
    THEN HTTPException(400, "Erreur lors du traitement de l'image")
    ELSE IF contents = "unidentified"
    THEN HTTPException(400, "Format d'image non supporté. Utilisez JPEG, PNG ou WebP.")
    ELSE IF contents = "bomb"
    THEN HTTPException(413, "Image trop grande (décompression bomb).")
    ELSE NoneEntry

\* a variant that answers 404 when the catalog has no entry
DetectionResponse_not_found(result, crop_type, now) ==
    LET catalog_match == map_prediction_to_catalog(Get(result, "disease_key", ""),
                                                   Get(result, "disease_name", ""))
    IN  IF ~TruthyDict(catalog_match)
        THEN HTTPException(404, "Maladie absente du catalogue")
        ELSE [status |-> 200,
              body |-> [disease_id |-> result.disease_key,
                        disease_name |-> catalog_match.disease_fr,
                        confidence |-> result.confidence,
                        severity |-> result.severity,
                        treatments |-> result.treatments,
                        prevention_tips |-> result.prevention_tips,
                        affected_crop |-> catalog_match.plant_fr,
                        detection_date |-> now,
                        success |-> result.success],
              result |-> result,
              catalog_match |-> catalog_match]

\* the end of detect_disease, from the reading of result on: the answer
\* [status |-> 200, body]; result and catalog_match are the handler's locals
\* of the same names
DetectionResponse(result, crop_type, now) ==
    LET disease_key == Get(result, "disease_key", "")
        disease_name_raw == Get(result, "disease_name", "")
        catalog_match == map_prediction_to_catalog(disease_key, disease_name_raw)
        affected_crop_final ==
            IF TruthyDict(catalog_match) THEN catalog_match.plant_fr
            ELSE IF Truthy(crop_type) THEN crop_type
            ELSE Get(result, "affected_crop", "Non spécifié")
    IN  [status |-> 200,
         body |->
           [disease_id |-> IF disease_key # "" THEN disease_key ELSE "unknown",
            disease_name |->
                IF TruthyDict(catalog_match) THEN catalog_match.disease_fr
                ELSE IF disease_name_raw # "" THEN disease_name_raw
                ELSE "Maladie non identifiée",
            confidence |-> Get(result, "confidence", 0),
            severity |-> Get(result, "severity", "Inconnue"),
            treatments |-> Get(result, "treatments", <<>>),
            prevention_tips |-> Get(result, "prevention_tips", <<>>),
            affected_crop |-> affected_crop_final,
            detection_date |-> now,
            success |-> Get(result, "success", TRUE)],
         result |-> result,
         catalog_match |-> catalog_match]

\* a variant that looks at the state of the service before the content type
detect_disease_service_first(multipart_error, model_error, detector, content_type, crop_type, language, contents, outcome, now) ==
    LET lang == IF language \notin {"fr", "wo", "pu"} THEN DEFAULT_LANG ELSE language
    IN  IF Truthy(multipart_error) THEN HTTPException(503, multipart_error)
        ELSE IF Truthy(model_error)
        THEN HTTPException(503, "Modèle non disponible: " \o model_error)
        ELSE IF detector = NoneEntry \/ ~detector.is_loaded
        THEN HTTPException(503, "Modèle non chargé côté serveur.")
        ELSE IF ~Truthy(content_type) \/ ~StartsWith("image/", content_type)
        THEN HTTPException(400, "Le fichier doit être une image.")
        ELSE IF _open_image_safe(contents) # NoneEntry THEN _open_image_safe(contents)
        ELSE LET result == predict(detector, outcome, lang, 3, now).ret
             IN  IF "error" \in DOMAIN result
                 THEN HTTPException(500, result.error) @@ [result |-> result]
                 ELSE DetectionResponse(result, crop_type, now)

\* detect_disease.  The answer is [status, detail] for an HTTPException; the
\* local result is kept with the answer once predict has returned
detect_disease(multipart_error, model_error, detector, content_type, crop_type, language, contents, outcome, now) ==
    IF ~Truthy(content_type) \/ ~StartsWith("image/", content_type)
    THEN HTTPException(400, "Le fichier doit être une image.")
    ELSE LET lang == IF language \notin {"fr", "wo", "pu"} THEN DEFAULT_LANG ELSE language
         IN  IF Truthy(multipart_error) THEN HTTPException(503, multipart_error)
             ELSE IF Truthy(model_error)
             THEN HTTPException(503, "Modèle non disponible: " \o model_error)
             ELSE IF detector = NoneEntry \/ ~detector.is_loaded
             THEN HTTPException(503, "Modèle non chargé côté serveur.")
             ELSE IF _open_image_safe(contents) # NoneEntry THEN _open_image_safe(contents)
             ELSE LET result == predict(detector, outcome, lang, 3, now).ret
                  IN  IF "error" \in DOMAIN result
                      THEN HTTPException(500, result.error) @@ [result |-> result]
                      ELSE DetectionResponse(result, crop_type, now)

(***************************************************************************)
(* main.py: the health endpoints                                           *)
(***************************************************************************)

APP_VERSION == "1.1.0"

STARTUP_TIME == 0

\* DETECTOR is not None and getattr(DETECTOR, "is_loaded", False)
IsLoaded(detector) ==
    IF detector = NoneEntry THEN FALSE
    ELSE IF "is_loaded" \in DOMAIN detector THEN detector.is_loaded
    ELSE FALSE

\* a variant that reports the model loaded as soon as a detector exists
health_detector_exists(detector, has_, now) ==
    LET model_status == IF detector # NoneEntry THEN "loaded" ELSE "error"
        chatbot_status == IF has_ THEN "available" ELSE "unavailable"
        overall_status == IF model_status = "loaded" THEN "healthy" ELSE "degraded"
    IN  [status |-> 200,
         body |-> [status |-> overall_status,
                   timestamp |-> now,
                   version |-> APP_VERSION,
                   services |-> [model |-> model_status, chatbot |-> chatbot_status,
                                 api |-> "running", database |-> "in_memory"],
                   model_loaded |-> IsLoaded(detector),
                   uptime |-> now - STARTUP_TIME]]

\* health: the HTTP answer of /health
health(detector, has_, now) ==
    LET model_status == IF IsLoaded(detector) THEN "loaded" ELSE "error"
        chatbot_status == IF has_ THEN "available" ELSE "unavailable"
        overall_status == IF model_status = "loaded" THEN "healthy" ELSE "degraded"
    IN  [status |-> 200,
         body |-> [status |-> overall_status,
                   timestamp |-> now,
                   version |-> APP_VERSION,
                   services |-> [model |-> model_status, chatbot |-> chatbot_status,
                                 api |-> "running", database |-> "in_memory"],
                   model_loaded |-> IsLoaded(detector),
                   uptime |-> now - STARTUP_TIME]]

\* ready: the HTTP answer of /health/ready
ready(detector, model_error, has_, now) ==
    LET model_ready == IsLoaded(detector) /\ model_error = None
        payload == [status |-> IF model_ready THEN "ready" ELSE "not-ready",
                    timestamp |-> now,
                    model_loaded |-> model_ready,
                    model_error |-> model_error,
                    chatbot_available |-> has_,
                    services_ready |-> [model |-> model_ready, chatbot |-> has_,
                                        api |-> TRUE]]
    IN  [status |-> IF model_ready THEN 200 ELSE 503, body |-> payload]

(***************************************************************************)
(* main.py: the catalogue endpoint                                         *)
(***************************************************************************)

\* aliases of get_common_diseases: <<key, vals>> in the order of the dict
aliases ==
    << <<"tomate", <<"tomate", "tomato">> >>,
       <<"pomme de terre", <<"pomme de terre", "potato">> >>,
       <<"poivron", <<"poivron", "pepper", "bell pepper", "pepper (bell)">> >> >>

\* x in [v.lower() for v in vals]
InLowered(x, vals) == \E i \in 1..Len(vals) : Lower(vals[i]) = x

\* [d for d in list if test], test being the membership of plant_en or
\* plant_fr in the lowered target aliases
Filtered(list, target_aliases) ==
    LET F[i \in 0..Len(list)] ==
            IF i = 0 THEN <<>>
            ELSE IF \/ InLowered(Lower(list[i].plant_en), target_aliases)
                    \/ InLowered(Lower(list[i].plant_fr), target_aliases)
                 THEN Append(F[i - 1], list[i])
                 ELSE F[i - 1]
    IN  F[Len(list)]

\* a variant that answers with the whole catalog when no alias is found
CropAnswer_whole_catalog(crop_type, target_aliases) ==
    IF target_aliases = NoneEntry
    THEN [diseases |-> DATASET_DISEASES, total |-> Len(DATASET_DISEASES),
          filter |-> crop_type]
    ELSE LET filtered == Filtered(DATASET_DISEASES, target_aliases)
         IN  [diseases |-> filtered, total |-> Len(filtered), filter |-> crop_type,
              crop_normalized |-> target_aliases[1]]

\* the body of the answer for the aliases found, NoneEntry for none
CropAnswer(crop_type, target_aliases) ==
    IF target_aliases = NoneEntry
    THEN [diseases |-> <<>>, total |-> 0, filter |-> crop_type]
    ELSE LET filtered == Filtered(DATASET_DISEASES, target_aliases)
         IN  [diseases |-> filtered, total |-> Len(filtered), filter |-> crop_type,
              crop_normalized |-> target_aliases[1]]

\* the first vals of aliases that hold norm
TargetAliases(norm) ==
    IF \E i \in 1..Len(aliases) : InLowered(norm, aliases[i][2])
    THEN aliases[CHOOSE i \in 1..Len(aliases) :
             /\ InLowered(norm, aliases[i][2])
             /\ \A j \in 1..(i - 1) : ~InLowered(norm, aliases[j][2])][2]
    ELSE NoneEntry

\* a variant that compares crop_type as it was sent
get_common_diseases_as_sent(crop_type) ==
    IF ~Truthy(crop_type)
    THEN [diseases |-> DATASET_DISEASES, total |-> Len(DATASET_DISEASES),
          crops |-> <<"Tomate", "Pomme de terre", "Poivron">>]
    ELSE CropAnswer(crop_type, TargetAliases(crop_type))

get_common_diseases(crop_type) ==
    IF ~Truthy(crop_type)
    THEN [diseases |-> DATASET_DISEASES, total |-> Len(DATASET_DISEASES),
          crops |-> <<"Tomate", "Pomme de terre", "Poivron">>]
    ELSE CropAnswer(crop_type, TargetAliases(Lower(Strip(crop_type))))

(***************************************************************************)
(* app.py: the chat page of the Streamlit application                      *)
(***************************************************************************)

\* DATASET_DISEASES of app.py
app_DATASET_DISEASES ==
  <<
    [id |-> "pepper_bacterial_spot", plant_fr |-> "Poivron",
     disease_fr |-> "Tache bactérienne", severity |-> "Modérée"],
    [id |-> "pepper_healthy", plant_fr |-> "Poivron",
     disease_fr |-> "Sain", severity |-> "Aucune"],
    [id |-> "potato_early_blight", plant_fr |-> "Pomme de terre",
     disease_fr |-> "Brûlure précoce", severity |-> "Modérée"],
    [id |-> "potato_late_blight", plant_fr |-> "Pomme de terre",
     disease_fr |-> "Brûlure tardive", severity |-> "Élevée"],
    [id |-> "potato_healthy", plant_fr |-> "Pomme de terre",
     disease_fr |-> "Sain", severity |-> "Aucune"],
    [id |-> "tomato_bacterial_spot", plant_fr |-> "Tomate",
     disease_fr |-> "Tache bactérienne", severity |-> "Modérée"],
    [id |-> "tomato_early_blight", plant_fr |-> "Tomate",
     disease_fr |-> "Brûlure précoce", severity |-> "Modérée"],
    [id |-> "tomato_leaf_mold", plant_fr |-> "Tomate",
     disease_fr |-> "Moisissure des feuilles", severity |-> "Modérée"],
    [id |-> "tomato_septoria_leaf_spot", plant_fr |-> "Tomate",
     disease_fr |-> "Tache foliaire de Septoria", severity |-> "Modérée"],
    [id |-> "tomato_spider_mites", plant_fr |-> "Tomate",
     disease_fr |-> "Acariens", severity |-> "Modérée"],
    [id |-> "tomato_target_spot", plant_fr |-> "Tomate",
     disease_fr |-> "Tache cible", severity |-> "Modérée"],
    [id |-> "tomato_mosaic_virus", plant_fr |-> "Tomate",
     disease_fr |-> "Virus de la mosaïque", severity |-> "Élevée"],
    [id |-> "tomato_yellow_leaf_curl_virus", plant_fr |-> "Tomate",
     disease_fr |-> "Virus de l'enroulement jaune", severity |-> "Élevée"],
    [id |-> "tomato_healthy", plant_fr |-> "Tomate",
     disease_fr |-> "Sain", severity |-> "Aucune"]
  >>

\* the entry reported for a class beyond the catalog
UNKNOWN_DISEASE ==
    [id |-> "unknown", plant_fr |-> "Non spécifié",
     disease_fr |-> "Maladie inconnue", severity |-> "Inconnue"]

\* predict_disease_demo: the entry is the one random.choice picks, pick its
\* place in DATASET_DISEASES, and confidence the number drawn
predict_disease_demo(pick, confidence) ==
    LET disease_info == app_DATASET_DISEASES[pick]
    IN  [disease_name |-> disease_info.disease_fr,
         plant |-> disease_info.plant_fr,
         confidence |-> confidence,
         severity |-> disease_info.severity,
         disease_id |-> disease_info.id,
         demo_mode |-> TRUE]

\* predict_disease.  predicted_class is np.argmax(predictions[0]), counted
\* from 0, confidence the probability of that class, and pick the choice of
\* the demonstration mode, taken when there is no model
predict_disease(model, predicted_class, confidence, pick) ==
    IF model = None THEN predict_disease_demo(pick, confidence)
    ELSE LET disease_info == IF predicted_class < Len(app_DATASET_DISEASES)
                             THEN app_DATASET_DISEASES[predicted_class + 1]
                             ELSE UNKNOWN_DISEASE
         IN  [disease_name |-> disease_info.disease_fr,
              plant |-> disease_info.plant_fr,
              confidence |-> confidence,
              severity |-> disease_info.severity,
              disease_id |-> disease_info.id]

\* knowledge_base of generate_chatbot_response: language |-> the
\* <<keyword, response>> pairs in the order of the dict
knowledge_base ==
  [
    fr |-> <<
      <<"mildiou",
        "Le mildiou est une maladie fongique grave qui affecte surtout les tomates et pommes de terre. **Traitement:** Appliquez un fongicide à base de cuivre dès les premiers symptômes. **Prévention:** Espacez bien les plants, évitez l'arrosage par aspersion, et utilisez des variétés résistantes.">>,
      <<"tache",
        "Les taches sur les feuilles peuvent être causées par des bactéries ou champignons. **Identifiez d'abord** la cause : taches noires (bactéries), taches brunes avec cercles (fongique). **Traitement:** Retirez les feuilles infectées, appliquez un fongicide ou bactéricide selon le cas.">>,
      <<"maladie",
        "Les principales maladies au Sénégal sont : le mildiou, la septoriose, les taches bactériennes, et les viroses. Pour un diagnostic précis, **uploadez une photo** dans la page Détection ! Je vous donnerai un traitement spécifique.">>,
      <<"tomate",
        "**Conseils pour les tomates :**\n· Arrosez au pied (jamais les feuilles)\n· Espacez de 50-60cm entre plants\n· Tuteurez dès la plantation\n· Paillez le sol\n· Surveillez le mildiou en saison humide\n· Fertilisez régulièrement (NPK 10-10-10)">>,
      <<"pomme de terre",
        "**Conseils pour les pommes de terre :**\n· Buttez régulièrement\n· Surveillez la brûlure précoce et tardive\n· Récoltez après jaunissement du feuillage\n· Stockez à l'abri de la lumière\n· Rotation des cultures obligatoire">>,
      <<"poivron",
        "**Conseils pour les poivrons :**\n· Température optimale : 20-28°C\n· Arrosage régulier mais modéré\n· Protection contre les acariens\n· Fertilisation riche en potassium pour la fructification\n· Récolte quand le fruit atteint sa couleur finale">>,
      <<"saison",
        "Au Sénégal, nous avons :\n· **Saison humide (juin-octobre)** : Attention au mildiou, septoriose. Augmentez la surveillance.\n· **Saison sèche (novembre-mai)** : Risque d'acariens, arrosage crucial.\n\nAdaptez vos cultures selon la saison !">>,
      <<"quand planter",
        "**Calendrier cultural au Sénégal :**\n· Tomates : Octobre-Décembre (meilleur)\n· Pommes de terre : Novembre-Janvier\n· Poivrons : Octobre-Novembre\n\nÉvitez les plantations en pleine saison des pluies.">>,
      <<"traitement",
        "Pour bien traiter vos plantes :\n1. **Identifiez** la maladie (utilisez notre détection !)\n2. **Retirez** les parties infectées\n3. **Appliquez** le traitement adapté\n4. **Prévenez** la propagation\n\nQuelle maladie voulez-vous traiter ?">>,
      <<"fongicide",
        "**Fongicides recommandés :**\n· Cuivre (bouillie bordelaise) : mildiou, taches\n· Soufre : oïdium\n· Mancozèbe : maladies fongiques\n\n:warning: Respectez les doses et délais avant récolte !">>,
      <<"arrosage",
        "**Bonnes pratiques d'arrosage :**\n· Matin tôt ou soir tard\n· Au pied des plants (jamais les feuilles)\n· Régulier mais sans excès\n· Plus important en floraison/fructification\n· Paillez pour garder l'humidité">>,
      <<"eau",
        "L'eau est cruciale mais l'excès tue ! **Signes d'excès :** jaunissement, pourriture. **Signes de manque :** flétrissement, fruits petits. Ajustez selon votre sol et la météo.">>,
      <<"sol",
        "**Préparez bien votre sol :**\n· pH idéal : 6.0-6.8 pour la plupart des cultures\n· Amendez avec compost (10-15 kg/m²)\n· Drainage essentiel\n· Rotation des cultures\n· Analysez votre sol si possible">>,
      <<"bonjour",
        "Bonjour ! :wave: Je suis votre assistant agricole AgriDetec. Je peux vous aider avec :\n· Diagnostic de maladies\n· Conseils de traitement\n· Bonnes pratiques culturales\n· Calendrier de plantation\n\nQue puis-je faire pour vous ?">>,
      <<"salut",
        "Salut ! Comment vont vos cultures aujourd'hui ? :seedling:">>,
      <<"merci",
        "Avec plaisir ! N'hésitez pas si vous avez d'autres questions. Bonnes cultures ! :ear_of_rice:">>,
      <<"aide",
        "Je peux vous aider avec :\n:white_check_mark: Identifier les maladies\n:white_check_mark: Conseils de traitement\n:white_check_mark: Calendrier cultural\n:white_check_mark: Bonnes pratiques\n:white_check_mark: Arrosage et fertilisation\n\nPosez-moi une question spécifique !">>,
      <<"detection",
        "Pour détecter une maladie :\n1. Allez sur la page **Détection** (sidebar)\n2. Uploadez une photo claire de votre plante\n3. Recevez diagnostic + traitement en quelques secondes !\n\n:camera_flash: La photo doit montrer clairement les symptômes.">>
    >>,
    wo |-> <<
      <<"bonjour",
        "Salam aleykum ! :wave: Maa ngi AgriDetec. Noonu laa mën a ko dimbal ci sa géej. Laaj ma!">>,
      <<"tomate",
        "**Tomat yi:**\n· Ndaw ci biir loxo (bul ndaw ay ndox)\n· Wàññi 50cm\n· Jëfal paaket\n· Xool mildiou ci navet">>,
      <<"maladie",
        "Yépp maladii yu bari nekk ci Senegaal: mildiou, taches bactériennes. Upload nataal ngir gis ci ñu def.">>,
      <<"default",
        "Laaj ma ci mbir, ci ñàkk maladii, waala bonnes pratiques ! Maa ngi fii ngir dimbalil yow. :seedling:">>
    >>,
    pu |-> <<
      <<"bonjour",
        "Jam waali ! :wave: Mi ko AgriDetec, ballal gese. Hol no tawii ma wallude ma?">>,
      <<"tomate",
        "**Tomat ðii:**\n· Ndaaw e dow leydi (hoto ndaawe e ndokke)\n· Hað 50cm\n· Ýeew mildiou e hitaande ndiyam">>,
      <<"maladie",
        "Maladii jamði e Senegaal: mildiou, taches. Upload natal ngam yiytaade.">>,
      <<"default",
        "Naamno ma e laawol gese, maladii, waala njuþþudi moýýudi ! Mi ðoo wallude ma. :seedling:">>
    >>
  ]

APP_DEFAULT_FR ==
    "C'est une excellente question ! Pour une réponse précise, pouvez-vous me donner plus de détails ? Ou essayez :\n· 'Comment traiter le mildiou ?'\n· 'Conseils pour les tomates'\n· 'Quand planter au Sénégal ?'\n· 'Comment arroser mes plants ?'"

APP_DEFAULT_WO == "Laaj ma ci ay xam-xam yu gën bari ! :seedling:"

APP_DEFAULT_PU == "Naamno ma e laawol gese ! :seedling:"

\* kb.get(keyword, default) on the pairs of one language
KbGet(kb, keyword, default) ==
    IF \E i \in 1..Len(kb) : kb[i][1] = keyword
    THEN kb[CHOOSE i \in 1..Len(kb) : kb[i][1] = keyword][2]
    ELSE default

generate_chatbot_response(message, language) ==
    LET message_lower == Lower(message)
        kb == Get(knowledge_base, language, knowledge_base.fr)
        default_responses ==
            [fr |-> APP_DEFAULT_FR,
             wo |-> KbGet(kb, "default", APP_DEFAULT_WO),
             pu |-> KbGet(kb, "default", APP_DEFAULT_PU)]
    IN  IF \E i \in 1..Len(kb) : Contains(kb[i][1], message_lower)
        THEN kb[CHOOSE i \in 1..Len(kb) :
                 /\ Contains(kb[i][1], message_lower)
                 /\ \A j \in 1..(i - 1) : ~Contains(kb[j][1], message_lower)][2]
        ELSE Get(default_responses, language, default_responses.fr)

\* a variant that puts the new messages before the earlier ones
page_chatbot_newest_first(state, language, prompt) ==
    LET initialised == IF "messages" \in DOMAIN state THEN state
                       ELSE [k \in DOMAIN state \cup {"messages"} |->
                                IF k = "messages" THEN <<>> ELSE state[k]]
    IN  IF ~Truthy(prompt) THEN initialised
        ELSE [initialised EXCEPT !.messages =
                 <<[role |-> "user", content |-> prompt],
                   [role |-> "assistant",
                    content |-> generate_chatbot_response(prompt, language)]>>
                 \o initialised.messages]

\* one run of page_chatbot on st.session_state; prompt is what st.chat_input
\* returns, None when nothing was submitted.  The result is the
\* session_state after the run
page_chatbot(state, language, prompt) ==
    LET initialised == IF "messages" \in DOMAIN state THEN state
                       ELSE [k \in DOMAIN state \cup {"messages"} |->
                                IF k = "messages" THEN <<>> ELSE state[k]]
    IN  IF ~Truthy(prompt) THEN initialised
        ELSE LET withUser == Append(initialised.messages,
                                    [role |-> "user", content |-> prompt])
                 response == generate_chatbot_response(prompt, language)
             IN  [initialised EXCEPT !.messages =
                     Append(withUser, [role |-> "assistant", content |-> response])]

(***************************************************************************)
(* The calls the model makes                                               *)
(***************************************************************************)

MaxTime == 2

Times == 1..MaxTime

Sessions == {"default", "s1"}

Languages == {None, "fr", "wo", "pu"}

UpperMap ==
    [c \in {SubSeq(LOWER, i, i) : i \in 1..Len(LOWER)} |->
        LET i == CHOOSE j \in 1..Len(LOWER) : SubSeq(LOWER, j, j) = c
        IN  SubSeq(UPPER, i, i)]

RECURSIVE UpperCase(_)
UpperCase(s) ==
    IF s = "" THEN ""
    ELSE (IF Head(s) \in DOMAIN UpperMap THEN UpperMap[Head(s)] ELSE Head(s))
         \o UpperCase(Tail(s))

DisplayNames == {DISEASE_INFO[i].name : i \in 1..Len(DISEASE_INFO)}

CropAliases == {crop_fr[i][1] : i \in 1..Len(crop_fr)}

ConditionAliases == {disease_fr[i][1] : i \in 1..Len(disease_fr)}

PairedBodies == {d \o " " \o c : d \in ConditionAliases, c \in CropAliases}

GeneralBodies ==
    {"", "  ", "xyz123 nonsense", "bonnes pratiques d'arrosage",
     "Comment prévenir les maladies fongiques ?", "champignons et arrosage bio",
     "traitement biologique ou arroser", "arroser pour éviter maladie", "bio",
     "maladie tomate", "maladie fongique tomate", "arrosage de mes plantes",
     "mes plantes", "Tomate saine ?", "engrais de fond", "les tomates"}

SecondaryPrefixes ==
    {"", "traitement ", "Prévention ", "symptômes ", "traiter éviter ",
     "soigner symptome ", "eviter reconnaître "}

Messages ==
    {p \o b : p \in SecondaryPrefixes, b \in DisplayNames \cup GeneralBodies}
    \cup {UpperCase(n) : n \in DisplayNames}
    \cup {p \o b : p \in {"", "traitement "}, b \in PairedBodies}

\* the calls whose session and language vary
VariedMessages ==
    {"", "xyz123 nonsense", "traitement mildiou tomate", "bonnes pratiques d'arrosage",
     "Tomate saine", "symptômes poivron"}

ResolverCalls ==
    (Messages \X {"default"} \X {"fr"}) \cup (VariedMessages \X Sessions \X Languages)

EndpointMessages ==
    {"", " ", " \n\t", "xyz123 nonsense", "  Traitement mildiou tomate ",
     "bonnes pratiques d'arrosage", "prévention poivron"}

EndpointLanguages == Languages \cup {"en"}

Contexts == {NoDict, [session_id |-> "s1"], [farm |-> "nord"]}

Labels ==
    {CLASS_ALIASES[i][1] : i \in 1..Len(CLASS_ALIASES)}
    \cup {None, "", " ", "\n", "Late blight", "Mildiou de la tomate", "Tomato  healthy", "zzz"}

Keys ==
    {DATASET_DISEASES[i].id : i \in 1..Len(DATASET_DISEASES)}
    \cup {None, "", "unknown", "tomato_late_blight"}

\* the model directories the service is started on
GoodMetadata == [kind |-> "classes", names |-> DefaultClassNames, model_name |-> "agridetect_model"]

TrainedDirectory ==
    [exists |-> TRUE, keras |-> "ok", h5 |-> "ok", outputs |-> Len(CLASS_ALIASES),
     metadata |-> GoodMetadata, smoke_ok |-> TRUE, fallback_ok |-> TRUE]

\* a class list with labels that CLASS_ALIASES and the knowledge base lack,
\* shorter than the network's output
ForeignClassNames == <<"Tomato_healthy", "Corn___Common_rust", "unknown", "tomato_late_blight">>

Directories ==
    {TrainedDirectory,
     [TrainedDirectory EXCEPT !.metadata = [kind |-> "missing"]],
     [TrainedDirectory EXCEPT !.metadata = [kind |-> "class_names", names |-> ForeignClassNames],
                              !.outputs = Len(ForeignClassNames) + 1],
     [TrainedDirectory EXCEPT !.metadata = [kind |-> "class_names", names |-> <<>>],
                              !.outputs = 2],
     [TrainedDirectory EXCEPT !.keras = "corrupt"],
     [TrainedDirectory EXCEPT !.keras = "corrupt", !.h5 = "missing"],
     [TrainedDirectory EXCEPT !.smoke_ok = FALSE],
     [TrainedDirectory EXCEPT !.keras = "missing", !.h5 = "corrupt", !.fallback_ok = FALSE]}

TrainedModel == [valid |-> TRUE, available |-> TRUE, fs |-> TrainedDirectory]

Environments ==
    {[valid |-> TRUE, available |-> TRUE, fs |-> d] : d \in Directories}
    \cup {[TrainedModel EXCEPT !.valid = FALSE], [TrainedModel EXCEPT !.available = FALSE]}

MultipartImports == {None, MULTIPART_MESSAGE}

\* the keys of the knowledge base of the chatbot
InfoKeys == {DISEASE_INFO_init[i].key : i \in 1..Len(DISEASE_INFO_init)}

\* normalized messages that ask for one shape of answer, and one that asks
\* for none
TreatmentRequests == {"traitement", "comment soigner", "traiter mes plants"}

PreventionRequests == {"prevention", "prévention", "comment eviter", "éviter"}

SymptomRequests == {"symptome", "quels symptômes", "reconnaitre", "comment reconnaître"}

FormatMessages ==
    TreatmentRequests \cup PreventionRequests \cup SymptomRequests
    \cup {"fiche", "traitement et prévention"}

\* every alias of get_common_diseases
CropTypeAliases ==
    UNION {{aliases[i][2][j] : j \in 1..Len(aliases[i][2])} : i \in 1..Len(aliases)}

\* s with its first letter in upper case
Capitalized(s) == IF s = "" THEN "" ELSE UpperCase(SubSeq(s, 1, 1)) \o SubSeq(s, 2, Len(s))

Paddings == {<<"", "">>, <<" ", "">>, <<"", " ">>, <<"\t", "\n">>}

\* the crop_type values sent to the catalogue endpoint: every alias in
\* three letter cases and four paddings, and values that are no alias
CropQueries ==
    {pad[1] \o c \o pad[2] :
        pad \in Paddings,
        c \in UNION {{a, UpperCase(a), Capitalized(a)} : a \in CropTypeAliases}}
    \cup {None, "", " ", "piment", "maïs", "tomates", "pomme  de terre"}

\* what load_model of app.py returns as the model
AppModels == {None, "agridetect_model_20251107_042206"}

\* the class np.argmax gives: the classes of the training set, in the order
\* of CLASS_ALIASES
PredictedClasses == 0..(Len(CLASS_ALIASES) - 1)

\* the probability of the class, in 1/10000
AppConfidences == {9900, 7000, 3400}

\* the browser sessions of the Streamlit application
StreamlitSessions == {"a", "b"}

MaxPrompts == 2

Prompts == {None, "Bonjour", "Comment traiter le MILDIOU ?", "default xyz"}

PageLanguages == {"fr", "wo"}

\* the callers that are served at the same time
Callers == {1, 2}

\* the calls they make
ConcurrentCalls ==
    {[op |-> "generate_response", message |-> m, session_id |-> "default", language |-> "fr"] :
        m \in {"xyz123 nonsense", "traitement mildiou tomate", "Tomate saine"}}
    \cup {[op |-> "map", disease_key |-> "", disease_name_raw |-> l] :
        l \in {"Tomato_healthy", "Potato___Late_blight", "zzz"}}
    \cup {[op |-> "diseases", crop_type |-> c] : c \in {None, " Tomate", "pepper", "maïs"}}
    \cup {[op |-> "predict", language |-> l, topk |-> 3] : l \in {"fr", "wo"}}

ContentTypes == {None, "text/plain", "image/png"}

CropTypes == {None, "Maïs"}

UploadContents == {"ok", "empty", "heavy", "unidentified"}

PredictLanguages == {"fr", "wo", "pu", "en", ""}

TopKs == {0, 1, 3}

\* probabilities in 1/10000, in decreasing order
Confidences == <<9000, 700, 300>>

\* argsort(probs)[::-1] of a network with n outputs: the best index and the
\* ones that follow it
Orders(n) ==
    {[i \in 1..(IF n < 3 THEN n ELSE 3) |-> (b + i - 1) % n] : b \in 0..(n - 1)}

\* what preprocess_image and the network can do with an image
Outcomes(detector) ==
    {[kind |-> "raise", error |-> "Impossible de prétraiter l'image"]}
    \cup (IF detector = NoneEntry \/ detector.outputs = 0 THEN {}
          ELSE {[kind |-> "probs", order |-> o, confidence |-> Confidences] :
                    o \in Orders(detector.outputs)})

(***************************************************************************)
(* State                                                                   *)
(***************************************************************************)

VARIABLES
    calls,          \* the calls of the callers served at the same time
    session_state,  \* app.py: st.session_state of every browser session
    MULTIPART_IMPORT_ERROR, \* main.py: MULTIPART_IMPORT_ERROR
    DETECTOR,       \* main.py: DETECTOR, NoneEntry for None
    MODEL_LOAD_ERROR, \* main.py: MODEL_LOAD_ERROR
    TEXT_INDEX,     \* MultilingualAgriChatbot._TEXT_INDEX
    default_lang,   \* MultilingualAgriChatbot.default_lang
    has,            \* _ChatAdapter._has
    req,            \* the call being made
    res,            \* its result: kind "pending" until the handler has run,
                    \* "none" once the caller has taken it
    first           \* an earlier resolver call and its reply, kept to compare

vars == <<tables, MULTIPART_IMPORT_ERROR, DETECTOR, MODEL_LOAD_ERROR,
          TEXT_INDEX, default_lang, has, req, res, first, calls, session_state>>

clients == <<calls, session_state>>

\* what start-up leaves in main.py
service == <<MULTIPART_IMPORT_ERROR, DETECTOR, MODEL_LOAD_ERROR>>

bot == <<TEXT_INDEX, default_lang, has>>

\* the state once the modules are imported and lifespan has run in
\* environment env
InitWith(env, multipart_error, treatments) ==
    /\ DISEASE_INFO = DISEASE_INFO_init
    /\ DATASET_DISEASES = DATASET_DISEASES_init
    /\ detector_DISEASE_INFO = detector_DISEASE_INFO_init
    /\ TREATMENTS_DB = treatments
    /\ MULTIPART_IMPORT_ERROR = multipart_error
    /\ DETECTOR = lifespan(env)[1]
    /\ MODEL_LOAD_ERROR = lifespan(env)[2]
    /\ TEXT_INDEX = _build_index
    /\ default_lang = "fr"
    /\ has = TRUE
    /\ req = [op |-> "none"]
    /\ res = [kind |-> "none"]
    /\ first = [op |-> "none"]
    /\ calls = [c \in Callers |-> [op |-> "none"]]
    /\ session_state = [s \in StreamlitSessions |-> EmptyDict]

Init ==
    \E env \in Environments, multipart_error \in MultipartImports :
        InitWith(env, multipart_error, TREATMENTS_DB_init)

\* the service started on the trained model, python-multipart installed
InitLoaded == InitWith(TrainedModel, None, TREATMENTS_DB_init)

\* a caller calls bot.generate_response
CallResolver(message, session_id, language) ==
    /\ res.kind = "none"
    /\ req' = [op |-> "generate_response", message |-> message,
               session_id |-> session_id, language |-> language]
    /\ res' = [kind |-> "pending"]
    /\ UNCHANGED <<tables, service, clients, bot, first>>

\* generate_response runs
GenerateResponse ==
    /\ req.op = "generate_response"
    /\ res.kind = "pending"
    /\ \E now \in Times :
          LET r == generate_response(TEXT_INDEX, default_lang, req.message,
                                     req.session_id, req.language, NoDict, now)
          IN  res' = [kind |-> "reply", ret |-> r.ret, locals |-> r.locals]
    /\ UNCHANGED <<tables, service, clients, bot, req, first>>

\* a client posts to /api/v1/chat
PostChat(message, language, context) ==
    /\ res.kind = "none"
    /\ req' = [op |-> "chat", message |-> message, language |-> language,
               context |-> context]
    /\ res' = [kind |-> "pending"]
    /\ UNCHANGED <<tables, service, clients, bot, first>>

\* the request is validated and chat_with_bot runs
ChatWithBot ==
    /\ req.op = "chat"
    /\ res.kind = "pending"
    /\ LET message == ChatMessage(req.message, req.language, req.context)
       IN  IF message = Invalid
           THEN res' = [kind |-> "http", status |-> 422]
           ELSE \E now \in Times :
                   res' = [kind |-> "http"]
                          @@ chat_with_bot(has, TEXT_INDEX, default_lang, message, now)
    /\ UNCHANGED <<tables, service, clients, bot, req, first>>

\* detect_disease's call of the reconciler
CallReconciler(disease_key, disease_name_raw) ==
    /\ res.kind = "none"
    /\ req' = [op |-> "map", disease_key |-> disease_key,
               disease_name_raw |-> disease_name_raw]
    /\ res' = [kind |-> "pending"]
    /\ UNCHANGED <<tables, service, clients, bot, first>>

\* map_prediction_to_catalog runs
MapPrediction ==
    /\ req.op = "map"
    /\ res.kind = "pending"
    /\ res' = [kind |-> "entry",
               item |-> map_prediction_to_catalog(req.disease_key, req.disease_name_raw)]
    /\ UNCHANGED <<tables, service, clients, bot, req, first>>

\* a client posts an upload to /api/v1/detect-disease
PostDetect(content_type, crop_type, language, contents) ==
    /\ res.kind = "none"
    /\ req' = [op |-> "detect", content_type |-> content_type, crop_type |-> crop_type,
               language |-> language, contents |-> contents]
    /\ res' = [kind |-> "pending"]
    /\ UNCHANGED <<tables, service, clients, bot, first>>

\* detect_disease runs
DetectDisease ==
    /\ req.op = "detect"
    /\ res.kind = "pending"
    /\ \E outcome \in Outcomes(DETECTOR), now \in Times :
          res' = [kind |-> "http", outcome |-> outcome]
                 @@ detect_disease(MULTIPART_IMPORT_ERROR, MODEL_LOAD_ERROR, DETECTOR,
                                   req.content_type, req.crop_type, req.language,
                                   req.contents, outcome, now)
    /\ UNCHANGED <<tables, service, clients, bot, req, first>>

\* a caller calls DETECTOR.predict
CallPredict(language, topk) ==
    /\ res.kind = "none"
    /\ DETECTOR # NoneEntry
    /\ req' = [op |-> "predict", language |-> language, topk |-> topk]
    /\ res' = [kind |-> "pending"]
    /\ UNCHANGED <<tables, service, clients, bot, first>>

\* predict runs
Predict ==
    /\ req.op = "predict"
    /\ res.kind = "pending"
    /\ \E outcome \in Outcomes(DETECTOR), now \in Times :
          LET r == predict(DETECTOR, outcome, req.language, req.topk, now)
          IN  res' = IF "raise" \in DOMAIN r
                     THEN [kind |-> "raise", exception |-> r.raise]
                     ELSE [kind |-> "prediction", outcome |-> outcome, result |-> r.ret]
    /\ UNCHANGED <<tables, service, clients, bot, req, first>>

\* the detection page calls predict_disease on an upload
CallPredictDisease(model, language) ==
    /\ res.kind = "none"
    /\ req' = [op |-> "predict_disease", model |-> model, language |-> language]
    /\ res' = [kind |-> "pending"]
    /\ UNCHANGED <<tables, service, clients, bot, first>>

\* predict_disease runs
PredictDisease ==
    /\ req.op = "predict_disease"
    /\ res.kind = "pending"
    /\ \E predicted_class \in PredictedClasses, confidence \in AppConfidences,
          pick \in 1..Len(app_DATASET_DISEASES) :
          \* the class is read with a model and the choice without one
          /\ IF req.model = None THEN predicted_class = 0 ELSE pick = 1
          /\ res' = [kind |-> "app_prediction",
                     predicted_class |-> IF req.model = None THEN None ELSE predicted_class,
                     result |-> predict_disease(req.model, predicted_class, confidence, pick)]
    /\ UNCHANGED <<tables, service, clients, bot, req, first>>

\* a client gets /health or /health/ready
GetHealth(path) ==
    /\ res.kind = "none"
    /\ req' = [op |-> path]
    /\ res' = [kind |-> "pending"]
    /\ UNCHANGED <<tables, service, clients, bot, first>>

\* health runs
Health ==
    /\ req.op = "health"
    /\ res.kind = "pending"
    /\ \E now \in Times :
          res' = [kind |-> "http"] @@ health(DETECTOR, has, now)
    /\ UNCHANGED <<tables, service, clients, bot, req, first>>

\* ready runs
Ready ==
    /\ req.op = "ready"
    /\ res.kind = "pending"
    /\ \E now \in Times :
          res' = [kind |-> "http"] @@ ready(DETECTOR, MODEL_LOAD_ERROR, has, now)
    /\ UNCHANGED <<tables, service, clients, bot, req, first>>

\* generate_response calls self._format_disease_answer for a resolved key
CallFormat(key, msg_norm) ==
    /\ res.kind = "none"
    /\ req' = [op |-> "format", key |-> key, msg_norm |-> msg_norm]
    /\ res' = [kind |-> "pending"]
    /\ UNCHANGED <<tables, service, clients, bot, first>>

\* _format_disease_answer runs
FormatDiseaseAnswer ==
    /\ req.op = "format"
    /\ res.kind = "pending"
    /\ res' = [kind |-> "text", text |-> _format_disease_answer(req.key, req.msg_norm)]
    /\ UNCHANGED <<tables, service, clients, bot, req, first>>

\* a client gets /api/v1/diseases/common
GetDiseases(crop_type) ==
    /\ res.kind = "none"
    /\ req' = [op |-> "diseases", crop_type |-> crop_type]
    /\ res' = [kind |-> "pending"]
    /\ UNCHANGED <<tables, service, clients, bot, first>>

\* get_common_diseases runs
GetCommonDiseases ==
    /\ req.op = "diseases"
    /\ res.kind = "pending"
    /\ res' = [kind |-> "http", status |-> 200, body |-> get_common_diseases(req.crop_type)]
    /\ UNCHANGED <<tables, service, clients, bot, req, first>>

\* one run of the chat page in a browser session
PageChatbot(session, language, prompt) ==
    /\ IF Truthy(prompt) /\ "messages" \in DOMAIN session_state[session]
       THEN Len(session_state[session].messages) < 2 * MaxPrompts
       ELSE TRUE
    /\ session_state' =
          [session_state EXCEPT ![session] = page_chatbot(@, language, prompt)]
    /\ UNCHANGED <<tables, service, calls, bot, req, res, first>>

\* what a call returns on the tables as they are, having read outcome and now
Handle(call, outcome, now) ==
    IF call.op = "generate_response"
    THEN generate_response(TEXT_INDEX, default_lang, call.message, call.session_id,
                           call.language, NoDict, now).ret
    ELSE IF call.op = "map"
    THEN map_prediction_to_catalog(call.disease_key, call.disease_name_raw)
    ELSE IF call.op = "diseases"
    THEN get_common_diseases(call.crop_type)
    ELSE predict(DETECTOR, outcome, call.language, call.topk, now)

\* what a call reads besides the tables: <<outcome, now>>, the image's
\* effect for predict and the clock for predict and generate_response,
\* NoneEntry and 0 for what the call does not read
Reads(call) ==
    IF call.op = "predict"
    THEN {<<o, now>> :
             o \in {o \in Outcomes(DETECTOR) : o.kind = "raise" \/ o.order[1] < 2},
             now \in Times}
    ELSE IF call.op = "generate_response"
    THEN {<<NoneEntry, now>> : now \in Times}
    ELSE {<<NoneEntry, 0>>}

\* a caller starts a call while others are being served
Begin(c, call) ==
    /\ calls[c].op = "none"
    /\ calls' = [calls EXCEPT ![c] = [op |-> call.op, call |-> call, stage |-> "pending"]]
    /\ UNCHANGED <<tables, service, session_state, bot, req, res, first>>

\* a variant in which the catalogue endpoint filters the catalog in place
Serve_filter_in_place(c) ==
    /\ calls[c].op # "none"
    /\ calls[c].stage = "pending"
    /\ \E read \in Reads(calls[c].call) :
          LET outcome == read[1]
              now == read[2]
          IN
          calls' = [calls EXCEPT ![c] =
                       [@ EXCEPT !.stage = "done"]
                       @@ [outcome |-> outcome, now |-> now,
                           result |-> Handle(calls[c].call, outcome, now)]]
    /\ DATASET_DISEASES' =
          IF calls[c].op = "diseases" /\ Truthy(calls[c].call.crop_type)
          THEN get_common_diseases(calls[c].call.crop_type).diseases
          ELSE DATASET_DISEASES
    /\ UNCHANGED <<DISEASE_INFO, detector_DISEASE_INFO, TREATMENTS_DB,
                   service, session_state, bot, req, res, first>>

\* the handler of the call of caller c runs: generate_response,
\* map_prediction_to_catalog, get_common_diseases or predict.  None of them
\* assigns to a table or to an element of one
Serve(c) ==
    /\ calls[c].op # "none"
    /\ calls[c].stage = "pending"
    /\ \E read \in Reads(calls[c].call) :
          LET outcome == read[1]
              now == read[2]
          IN
          calls' = [calls EXCEPT ![c] =
                       [@ EXCEPT !.stage = "done"]
                       @@ [outcome |-> outcome, now |-> now,
                           result |-> Handle(calls[c].call, outcome, now)]]
    /\ UNCHANGED <<tables, service, session_state, bot, req, res, first>>

\* caller c takes its result
End(c) ==
    /\ calls[c].op # "none"
    /\ calls[c].stage = "done"
    /\ calls' = [calls EXCEPT ![c] = [op |-> "none"]]
    /\ UNCHANGED <<tables, service, session_state, bot, req, res, first>>

\* the caller takes the result
Return ==
    /\ res.kind \notin {"none", "pending"}
    /\ req' = [op |-> "none"]
    /\ res' = [kind |-> "none"]
    /\ UNCHANGED <<tables, service, clients, bot, first>>

\* the caller takes the reply of a resolver call and keeps it
Remember ==
    /\ res.kind = "reply"
    /\ first.op = "none"
    /\ first' = [op |-> req.op, message |-> req.message, session_id |-> req.session_id,
                 language |-> req.language, ret |-> res.ret]
    /\ req' = [op |-> "none"]
    /\ res' = [kind |-> "none"]
    /\ UNCHANGED <<tables, service, clients, bot>>

Next ==
    \/ \E c \in ResolverCalls : CallResolver(c[1], c[2], c[3])
    \/ GenerateResponse
    \/ \E m \in EndpointMessages, l \in EndpointLanguages, c \in Contexts : PostChat(m, l, c)
    \/ ChatWithBot
    \/ \E k \in Keys, l \in Labels : CallReconciler(k, l)
    \/ MapPrediction
    \/ \E t \in ContentTypes, c \in CropTypes, l \in EndpointLanguages, u \in UploadContents :
          PostDetect(t, c, l, u)
    \/ DetectDisease
    \/ \E l \in PredictLanguages, k \in TopKs : CallPredict(l, k)
    \/ Predict
    \/ \E c \in CropQueries : GetDiseases(c)
    \/ GetCommonDiseases
    \/ \E k \in InfoKeys, m \in FormatMessages : CallFormat(k, m)
    \/ FormatDiseaseAnswer
    \/ \E path \in {"health", "ready"} : GetHealth(path)
    \/ Health
    \/ Ready
    \/ \E m \in AppModels, l \in PageLanguages : CallPredictDisease(m, l)
    \/ PredictDisease
    \/ \E s \in StreamlitSessions, l \in PageLanguages, p \in Prompts : PageChatbot(s, l, p)
    \/ \E c \in Callers, call \in ConcurrentCalls : Begin(c, call)
    \/ \E c \in Callers : Serve(c)
    \/ \E c \in Callers : End(c)
    \/ Return

Spec == Init /\ [][Next]_vars

\* the reconciler alone
NextReconciler ==
    \/ \E k \in Keys, l \in Labels : CallReconciler(k, l)
    \/ MapPrediction
    \/ Return

SpecReconciler == InitLoaded /\ [][NextReconciler]_vars

\* the chat resolver and the chat endpoint alone
NextChat ==
    \/ \E c \in ResolverCalls : CallResolver(c[1], c[2], c[3])
    \/ GenerateResponse
    \/ \E m \in EndpointMessages, l \in EndpointLanguages, c \in Contexts : PostChat(m, l, c)
    \/ ChatWithBot
    \/ Return

SpecChat == InitLoaded /\ [][NextChat]_vars

\* the detection endpoint alone
NextDetect ==
    \/ \E t \in ContentTypes, c \in CropTypes, l \in EndpointLanguages, u \in UploadContents :
          PostDetect(t, c, l, u)
    \/ DetectDisease
    \/ \E l \in PredictLanguages, k \in TopKs : CallPredict(l, k)
    \/ Predict
    \/ Return

SpecDetect == Init /\ [][NextDetect]_vars

\* the treatment table as shipped, and edited so that the id neem_oil, which
\* four entries reference, has no record
EditedTreatments ==
    {TREATMENTS_DB_init,
     [t \in DOMAIN TREATMENTS_DB_init \ {"neem_oil"} |-> TREATMENTS_DB_init[t]]}

InitEdited == \E treatments \in EditedTreatments : InitWith(TrainedModel, None, treatments)

\* the detection endpoint of a service started on either table
SpecEdited == InitEdited /\ [][NextDetect]_vars

\* the detection of the Streamlit application alone
NextApp ==
    \/ \E m \in AppModels, l \in PageLanguages : CallPredictDisease(m, l)
    \/ PredictDisease
    \/ Return

SpecApp == InitLoaded /\ [][NextApp]_vars

\* the health endpoints alone, on every start-up
NextHealth ==
    \/ \E path \in {"health", "ready"} : GetHealth(path)
    \/ Health
    \/ Ready
    \/ Return

SpecHealth == Init /\ [][NextHealth]_vars

\* the formatter of the chatbot alone
NextFormat ==
    \/ \E k \in InfoKeys, m \in FormatMessages : CallFormat(k, m)
    \/ FormatDiseaseAnswer
    \/ Return

SpecFormat == InitLoaded /\ [][NextFormat]_vars

\* the catalogue endpoint alone
NextCatalog ==
    \/ \E c \in CropQueries : GetDiseases(c)
    \/ GetCommonDiseases
    \/ Return

SpecCatalog == InitLoaded /\ [][NextCatalog]_vars

\* the chat page of the Streamlit application alone
NextPage ==
    \E s \in StreamlitSessions, l \in PageLanguages, p \in Prompts : PageChatbot(s, l, p)

SpecPage == InitLoaded /\ [][NextPage]_vars

\* several callers served at the same time
NextConcurrent ==
    \/ \E c \in Callers, call \in ConcurrentCalls : Begin(c, call)
    \/ \E c \in Callers : Serve(c)
    \/ \E c \in Callers : End(c)

SpecConcurrent == InitLoaded /\ [][NextConcurrent]_vars

\* the resolver called again and again, an earlier reply being kept
HistoryCalls ==
    {"xyz123 nonsense", "traitement mildiou tomate", "Tomate saine"}
    \X Sessions \X {"fr", "wo"}

NextHistory ==
    \/ \E c \in HistoryCalls : CallResolver(c[1], c[2], c[3])
    \/ GenerateResponse
    \/ Return
    \/ Remember

SpecHistory == InitLoaded /\ [][NextHistory]_vars

TypeOK ==
    res.kind \in {"none", "pending", "reply", "http", "entry", "prediction", "raise", "text",
                  "app_prediction"}

(***************************************************************************)
(* The reconciler                                                          *)
(***************************************************************************)

CatalogIds == {DATASET_DISEASES[i].id : i \in 1..Len(DATASET_DISEASES)}

ClassLabels == {CLASS_ALIASES[i][1] : i \in 1..Len(CLASS_ALIASES)}

\* CLASS_ALIASES[label]
CanonicalKey(label) ==
    CLASS_ALIASES[CHOOSE i \in 1..Len(CLASS_ALIASES) : CLASS_ALIASES[i][1] = label][2]

\* map_prediction_to_catalog has returned
Mapped == req.op = "map" /\ res.kind = "entry"

\* C1: called with an empty key and a raw training label of CLASS_ALIASES,
\* map_prediction_to_catalog returns the catalog entry whose id is the
\* canonical key of the label.
C1_LabelResolvesToCanonicalEntry ==
    (Mapped /\ ~Truthy(req.disease_key) /\ req.disease_name_raw \in ClassLabels)
        => /\ res.item # NoneEntry
           /\ res.item.id = CanonicalKey(req.disease_name_raw)

\* C3: called with a key that is a catalog id, map_prediction_to_catalog
\* returns the entry with that id, whatever the raw label is.
C3_ExactKeyWins ==
    (Mapped /\ req.disease_key \in CatalogIds)
        => /\ res.item # NoneEntry
           /\ res.item.id = req.disease_key

\* C3 witness: the key is a catalog id, the label fuzzily matches an entry
\* that comes earlier in the catalog, and the entry of the key is returned.
C3_Witness ==
    /\ Mapped
    /\ req.disease_key = "tomato_early_blight"
    /\ req.disease_name_raw = "Tomato_Bacterial_spot"
    /\ FuzzyItem(LabelKey(req.disease_name_raw), DATASET_DISEASES[1])
    /\ res.item # NoneEntry
    /\ res.item.id = "tomato_early_blight"

\* C4: when the key is not a catalog id, an entry matched only by its
\* English condition text is returned only if no entry of the catalog
\* matches the normalized label by id.
C4_IdMatchBeforeConditionText ==
    (/\ Mapped
     /\ req.disease_key \notin CatalogIds
     /\ res.item # NoneEntry
     /\ ~IdMatch(LabelKey(req.disease_name_raw), res.item))
        => \A i \in 1..Len(DATASET_DISEASES) :
               ~IdMatch(LabelKey(req.disease_name_raw), DATASET_DISEASES[i])

(***************************************************************************)
(* The chat resolver                                                       *)
(***************************************************************************)

\* generate_response has returned
Replied == req.op = "generate_response" /\ res.kind = "reply"

\* the entries of the knowledge base for the crop and the condition aliases
\* found in a normalized message: the keys of the condition's list that
\* begin with the crop's prefix
PairedKeys(msg_norm) ==
    {DISEASE_INFO[i].key : i \in 1..Len(DISEASE_INFO)} \cap
    UNION {UNION {{disease_fr[di][2][k] : k \in
                      {k \in 1..Len(disease_fr[di][2]) :
                          \E p \in 1..Len(crop_fr[ci][2]) :
                              StartsWith(crop_fr[ci][2][p], disease_fr[di][2][k])}} :
                  di \in {di \in 1..Len(disease_fr) : Contains(disease_fr[di][1], msg_norm)}} :
           ci \in {ci \in 1..Len(crop_fr) : Contains(crop_fr[ci][1], msg_norm)}}

\* C2: a message that contains a crop alias and a condition alias for which
\* an entry of that crop and condition exists gets intent disease_info and
\* an answer about exactly that entry.
C2_PairedMessageResolves ==
    Replied =>
        \A k \in PairedKeys(res.locals.msg_norm) :
            PairedKeys(res.locals.msg_norm) = {k} =>
                /\ res.ret.intent = "disease_info"
                /\ res.locals.disease_key = k
                /\ Contains("**" \o InfoGet(k).name \o "**", res.ret.response)

C6_ResolverTotal ==
    Replied =>
          /\ res.ret.response # ""
          /\ res.ret.suggestions = <<"traitement mildiou tomate",
                                     "prévention tache bactérienne poivron",
                                     "bonnes pratiques d'arrosage">>
          /\ res.ret.intent \in {"disease_info", "general"}
          /\ res.ret.intent = "disease_info" <=> Truthy(res.locals.disease_key)
          /\ Truthy(res.locals.disease_key) =>
                res.ret.response =
                    _format_disease_answer(res.locals.disease_key, res.locals.msg_norm)
          /\ ~Truthy(res.locals.disease_key) =>
                res.ret.response = _general_reply(res.locals.msg_norm)

\* C6 witness: a message with an upper-case keyword resolved to a key and
\* answered by the disease formatter.
C6_Witness ==
    /\ Replied
    /\ req.message = "Prévention Poivron sain"
    /\ Truthy(res.locals.disease_key)
    /\ res.ret.intent = "disease_info"
    /\ StartsWith("Prévention pour **", res.ret.response)

\* C7 as claimed: an empty or white-space message is answered with the
\* default text and intent general, by the resolver and by the endpoint.
C7_EmptyMessageNotRejected ==
    /\ (Replied /\ Strip(req.message) = "") =>
          (res.ret.response = DEFAULT_REPLY /\ res.ret.intent = "general")
    /\ (req.op = "chat" /\ res.kind = "http" /\ Strip(req.message) = ""
            /\ req.language \in {None, "fr", "wo", "pu"}) =>
          (/\ res.status = 200
           /\ res.body.response = DEFAULT_REPLY
           /\ res.body.intent = "general")

\* C7 as amended: the resolver answers an empty or white-space message with
\* the default text and intent general; the chat endpoint rejects it at
\* validation (422) and does not call the resolver.
C7_EmptyMessage ==
    /\ (Replied /\ Strip(req.message) = "") =>
          (res.ret.response = DEFAULT_REPLY /\ res.ret.intent = "general")
    /\ (req.op = "chat" /\ res.kind = "http" /\ Strip(req.message) = "") =>
          res.status = 422

\* C7 witness: a white-space message posted to the endpoint with a valid
\* language has been rejected.
C7_Witness ==
    /\ req.op = "chat"
    /\ res.kind = "http"
    /\ req.message = " \n\t"
    /\ req.language = "fr"
    /\ res.status = 422

\* C8: a later call with the message of a kept earlier call returns the same
\* text, intent and suggestions, whatever the sessions, the languages and
\* the calls in between; "xyz123 nonsense" gets the default reply.
C8_Deterministic ==
    /\ (Replied /\ first.op # "none" /\ req.message = first.message) =>
          /\ res.ret.response = first.ret.response
          /\ res.ret.intent = first.ret.intent
          /\ res.ret.suggestions = first.ret.suggestions
    /\ (Replied /\ req.message = "xyz123 nonsense") => res.ret.response = DEFAULT_REPLY

\* C8 witness: the same message answered twice, in another session, another
\* language and at another time.
C8_Witness ==
    /\ Replied
    /\ first.op # "none"
    /\ req.message = "Tomate saine"
    /\ first.message = req.message
    /\ first.session_id # req.session_id
    /\ first.language # req.language
    /\ first.ret.timestamp # res.ret.timestamp
    /\ res.ret.response = first.ret.response

\* C9: with a key resolved the template is the first of treatment,
\* prevention, symptoms whose keyword is in the message, and the fact sheet
\* (severity, symptoms, at most the first two treatments and the first two
\* prevention tips) when there is none.
C9_TemplatePriority ==
    (Replied /\ Truthy(res.locals.disease_key)) =>
        LET m == res.locals.msg_norm
            text == res.ret.response
            e == InfoGet(res.locals.disease_key)
            T == AnyWord(TREATMENT_WORDS, m)
            P == AnyWord(PREVENTION_WORDS, m)
            S == AnyWord(SYMPTOM_WORDS, m)
        IN  /\ T => \/ StartsWith("Traitement pour **" \o e.name \o "**", text)
                    \/ StartsWith("Pour **" \o e.name \o "**, pas de traitement", text)
            /\ (~T /\ P) => \/ StartsWith("Prévention pour **" \o e.name \o "**", text)
                            \/ StartsWith("Prévention générale pour **" \o e.name \o "**", text)
            /\ (~T /\ ~P /\ S) => StartsWith("Symptômes de **" \o e.name \o "**", text)
            /\ (~T /\ ~P /\ ~S) =>
                  /\ StartsWith(":clipboard: Maladie : **" \o e.name \o "**\nSévérité : "
                                \o e.severity, text)
                  /\ e.symptoms # "" => Contains("\nSymptômes : " \o e.symptoms, text)
                  /\ \A i \in 1..Len(e.treatments) :
                        Contains(e.treatments[i], text) <=> i <= 2
                  /\ \A i \in 1..Len(e.prevention) :
                        Contains(e.prevention[i], text) <=> i <= 2

\* C9 witness: a treatment and a prevention keyword in a message resolved
\* to an entry that has both lists; the treatment reply is given.
C9_Witness ==
    /\ Replied
    /\ req.message = "traiter éviter Tache bactérienne du poivron"
    /\ res.locals.disease_key = "pepper_bacterial_spot"
    /\ AnyWord(TREATMENT_WORDS, res.locals.msg_norm)
    /\ AnyWord(PREVENTION_WORDS, res.locals.msg_norm)
    /\ StartsWith("Traitement pour **Tache bactérienne du poivron** :", res.ret.response)

\* C10: with no key resolved the reply is the first of fungal, biological
\* treatment, watering, general prevention, 'tomate' with 'maladie' whose
\* keyword is in the message, and the default reply when there is none;
\* "bonnes pratiques d'arrosage" gets intent general and the watering reply.
C10_GeneralPriority ==
    /\ (Replied /\ ~Truthy(res.locals.disease_key)) =>
          LET m == res.locals.msg_norm
              text == res.ret.response
              F == AnyWord(FUNGAL_WORDS, m)
              B == AnyWord(BIO_WORDS, m)
              W == AnyWord(WATERING_WORDS, m)
              P == AnyWord(GENERAL_PREVENTION_WORDS, m)
              TM == Contains("tomate", m) /\ Contains("maladie", m)
          IN  /\ res.ret.intent = "general"
              /\ F => text = FUNGAL_REPLY
              /\ (~F /\ B) => text = BIO_REPLY
              /\ (~F /\ ~B /\ W) => text = WATERING_REPLY
              /\ (~F /\ ~B /\ ~W /\ P) => text = PREVENTION_REPLY
              /\ (~F /\ ~B /\ ~W /\ ~P /\ TM) => text = TOMATO_REPLY
              /\ (~F /\ ~B /\ ~W /\ ~P /\ ~TM) => text = DEFAULT_REPLY
    /\ (Replied /\ req.message = "bonnes pratiques d'arrosage") =>
          /\ res.ret.intent = "general"
          /\ StartsWith("Bonnes pratiques d'arrosage", res.ret.response)
          /\ res.ret.response = WATERING_REPLY

\* C10 witness: fungal, biological and watering keywords in one message
\* with no key resolved; the fungal reply is given.
C10_Witness ==
    /\ Replied
    /\ req.message = "champignons et arrosage bio"
    /\ ~Truthy(res.locals.disease_key)
    /\ AnyWord(BIO_WORDS, res.locals.msg_norm)
    /\ AnyWord(WATERING_WORDS, res.locals.msg_norm)
    /\ res.ret.response = FUNGAL_REPLY

(***************************************************************************)
(* Claims about the token rule of the resolver                             *)
(***************************************************************************)

\* the number of white-space tokens of a catalog text found in the message
TokensFound(text, msg_norm) ==
    LET parts == Split(Lower(text))
    IN  Cardinality({p \in 1..Len(parts) : Contains(parts[p], msg_norm)})

\* a catalog text qualifies with min(2, tokenCount) of its tokens
Qualifies(text, msg_norm) ==
    LET n == Len(Split(Lower(text)))
    IN  n > 0 /\ TokensFound(text, msg_norm) >= (IF n < 2 THEN n ELSE 2)

\* the positions, in catalog order, of the entries that qualify
QualifyingEntries(msg_norm) ==
    {i \in 1..Len(DISEASE_INFO) :
        \/ Qualifies(DISEASE_INFO[i].name, msg_norm)
        \/ Qualifies(DISEASE_INFO[i].crop, msg_norm)}

\* C11: when the paired rule does not decide, the key found is the key of
\* the first entry, in catalog order, of which min(2, tokenCount) tokens of
\* the display name or of the crop name are in the normalized message,
\* whatever later entries match; no key is found only when no entry
\* qualifies.
C11_FirstQualifyingEntry ==
    (Replied /\ PairedMatch(res.locals.msg_norm) = None) =>
        LET q == QualifyingEntries(res.locals.msg_norm)
        IN  IF q = {}
            THEN res.locals.disease_key = None
            ELSE res.locals.disease_key =
                    DISEASE_INFO[CHOOSE i \in q : \A j \in q : i <= j].key

\* a display name of which a later entry matches every token and the
\* first qualifying entry only two of five
C11_Witness ==
    /\ Replied
    /\ req.message = "Brûlure précoce de la tomate"
    /\ PairedMatch(res.locals.msg_norm) = None
    /\ res.locals.disease_key = "potato_early_blight"
    /\ TokensFound(InfoGet("potato_early_blight").name, res.locals.msg_norm) < 5
    /\ TokensFound(InfoGet("tomato_early_blight").name, res.locals.msg_norm) = 5

(***************************************************************************)
(* Claims about detection                                                  *)
(***************************************************************************)

\* detect_disease has answered
Detected == req.op = "detect" /\ res.kind = "http"

\* detect_disease has answered after predict returned its success dict
Answered == Detected /\ res.status = 200

\* predict has returned, called by the endpoint or directly
Predicted ==
    \/ Detected /\ "result" \in DOMAIN res
    \/ req.op = "predict" /\ res.kind = "prediction"

\* the language predict works in
PredictLanguage ==
    IF req.language \in {"fr", "wo", "pu"} THEN req.language ELSE "fr"

C13_LocalizedCatalogName ==
    (/\ Answered
     /\ req.language \in {"wo", "pu"}
     /\ res.result.disease_key \in DOMAIN detector_DISEASE_INFO
     /\ res.catalog_match # NoneEntry
     /\ res.catalog_match.id = res.result.disease_key) =>
        LET entry == detector_DISEASE_INFO[res.result.disease_key]
        IN  res.body.disease_name =
                (IF req.language \in DOMAIN entry THEN entry[req.language] ELSE entry.fr)

\* the name of a key in a language: the name in that language, else French
ExpectedName(key, lang) ==
    LET entry == detector_DISEASE_INFO[key]
    IN  IF lang \in DOMAIN entry THEN entry[lang] ELSE entry.fr

\* the records of the treatments of a key: of that language, else French
ExpectedTreatments(key, lang) ==
    LET ids == detector_DISEASE_INFO[key].treatments
    IN  [i \in 1..Len(ids) |->
            IF lang \in DOMAIN TREATMENTS_DB[ids[i]]
            THEN TREATMENTS_DB[ids[i]][lang]
            ELSE TREATMENTS_DB[ids[i]].fr]

\* C14: for every key of the knowledge base and every language fr, wo, pu,
\* _name_localized is the name in that language, else the French name, and
\* _treatments_localized the record of each treatment in that language,
\* else its French record; predict reports these.
C14_LocalizedWithFrenchFallback ==
    /\ \A key \in DOMAIN detector_DISEASE_INFO, lang \in {"fr", "wo", "pu"} :
          /\ _name_localized(key, lang) = ExpectedName(key, lang)
          /\ _treatments_localized(key, lang) = ExpectedTreatments(key, lang)
    /\ (Predicted /\ res.outcome.kind = "probs"
          /\ res.result.disease_key \in DOMAIN detector_DISEASE_INFO) =>
          /\ res.result.disease_name = ExpectedName(res.result.disease_key, PredictLanguage)
          /\ res.result.treatments = ExpectedTreatments(res.result.disease_key, PredictLanguage)

\* a prediction in wolof: the wolof name, and the French record of a
\* treatment that has no wolof record
C14_Witness ==
    /\ Predicted
    /\ res.outcome.kind = "probs"
    /\ req.language = "wo"
    /\ res.result.disease_key = "potato_late_blight"
    /\ res.result.disease_name = "Mildiou"
    /\ "wo" \notin DOMAIN TREATMENTS_DB["fungicide_systemic"]
    /\ res.result.treatments = <<TREATMENTS_DB["fungicide_systemic"].fr>>

\* C15: every treatment id of every entry is a key of TREATMENTS_DB with a
\* French record, so _treatments_localized gives one record per id, in the
\* order of the entry.
C15_TreatmentReferencesResolve ==
    \A key \in DOMAIN detector_DISEASE_INFO :
        LET ids == detector_DISEASE_INFO[key].treatments
        IN  /\ \A i \in 1..Len(ids) :
                  /\ ids[i] \in DOMAIN TREATMENTS_DB
                  /\ "fr" \in DOMAIN TREATMENTS_DB[ids[i]]
            /\ \A lang \in {"fr", "wo", "pu"} :
                  /\ Len(_treatments_localized(key, lang)) = Len(ids)
                  /\ \A i \in 1..Len(ids) :
                        _treatments_localized(key, lang)[i] = TreatmentData(ids[i], lang)
            /\ (Predicted /\ res.outcome.kind = "probs" /\ res.result.disease_key = key) =>
                  Len(res.result.treatments) = Len(ids)

\* a prediction of an entry with two treatments, reported in its order
C15_Witness ==
    /\ Predicted
    /\ res.outcome.kind = "probs"
    /\ res.result.disease_key = "tomato_spider_mites"
    /\ detector_DISEASE_INFO["tomato_spider_mites"].treatments = <<"neem_oil", "soap_solution">>
    /\ res.result.treatments =
          <<TREATMENTS_DB["neem_oil"].fr, TREATMENTS_DB["soap_solution"].fr>>

\* C17: predict never returns an empty disease_name, whatever the class
\* index, the class label, the language and on the error path; an index
\* beyond the class list gives key 'unknown', no treatments and severity
\* 'Inconnue'.
C17_NameNeverEmpty ==
    Predicted =>
        /\ res.result.disease_name # ""
        /\ (res.outcome.kind = "probs"
              /\ res.outcome.order[1] >= Len(DETECTOR.class_names)) =>
              /\ res.result.disease_key = "unknown"
              /\ res.result.treatments = <<>>
              /\ res.result.severity = "Inconnue"

\* an index beyond the class list, a label that the tables lack, and the
\* error path
C17_WitnessBeyond ==
    /\ Predicted
    /\ res.outcome.kind = "probs"
    /\ Len(DETECTOR.class_names) > 0
    /\ res.outcome.order[1] >= Len(DETECTOR.class_names)
    /\ res.result.disease_name = "unknown"

\* an entry references a treatment id that TREATMENTS_DB lacks
Dangling ==
    \E key \in DOMAIN detector_DISEASE_INFO :
        \E i \in 1..Len(detector_DISEASE_INFO[key].treatments) :
            detector_DISEASE_INFO[key].treatments[i] \notin DOMAIN TREATMENTS_DB

\* C16: with a dangling treatment reference the service refuses to start
\* (no upload is answered with a prediction), and no prediction is ever
\* produced with a referenced treatment dropped.
C16_DanglingReferenceRefused ==
    /\ (Dangling /\ Detected) => res.status # 200
    /\ (Predicted /\ res.outcome.kind = "probs"
          /\ res.result.disease_key \in DOMAIN detector_DISEASE_INFO) =>
          Len(res.result.treatments) =
              Len(detector_DISEASE_INFO[res.result.disease_key].treatments)

(***************************************************************************)
(* The catalogue endpoint                                                  *)
(***************************************************************************)

\* the spellings of the aliases of crop group i: each alias in three letter
\* cases and four paddings
GroupQueries(i) ==
    {pad[1] \o c \o pad[2] :
        pad \in Paddings,
        c \in UNION {{a, UpperCase(a), Capitalized(a)} :
                        a \in {aliases[i][2][j] : j \in 1..Len(aliases[i][2])}}}

\* the entries of a list, as a set
Entries(list) == {list[k] : k \in 1..Len(list)}

\* the catalogue endpoint has answered the request
Listed == req.op = "diseases" /\ res.kind = "http"

\* C20: whatever alias of a crop group is sent, in any letter case and with
\* surrounding whitespace, get_common_diseases returns the set of entries it
\* returns for every other spelling of every alias of that group, and every
\* entry returned is an entry of that crop
C20_AliasEquivalence ==
    \A i \in 1..Len(aliases) :
        (Listed /\ req.crop_type \in GroupQueries(i)) =>
            /\ \A q \in GroupQueries(i) :
                   Entries(get_common_diseases(q).diseases) = Entries(res.body.diseases)
            /\ \A d \in Entries(res.body.diseases) : Lower(d.plant_fr) = aliases[i][1]
            /\ res.body.total = Len(res.body.diseases)

\* " Tomate" was sent and the tomato entries came back
C20_Witness ==
    /\ Listed
    /\ req.crop_type = " Tomate"
    /\ Len(res.body.diseases) > 1
    /\ Entries(res.body.diseases) = Entries(get_common_diseases("tomato").diseases)
    /\ \A d \in Entries(res.body.diseases) : d.plant_fr = "Tomate"


(***************************************************************************)
(* The chat page                                                           *)
(***************************************************************************)

\* the messages kept in a session state
History(state) == IF "messages" \in DOMAIN state THEN state.messages ELSE <<>>

\* the step leaves the history of session s as it was
SameHistory(s) == History(session_state'[s]) = History(session_state[s])

\* the step adds one user message and the reply to it at the end of the
\* history of session s, and leaves what was there in place
AppendsExchange(s) ==
    LET old == History(session_state[s])
        new == History(session_state'[s])
    IN  /\ Len(new) = Len(old) + 2
        /\ SubSeq(new, 1, Len(old)) = old
        /\ new[Len(old) + 1].role = "user"
        /\ new[Len(old) + 1].content \in Prompts \ {None}
        /\ new[Len(old) + 2].role = "assistant"
        /\ \E l \in PageLanguages :
               new[Len(old) + 2].content =
                   generate_chatbot_response(new[Len(old) + 1].content, l)

\* C19: every step leaves each session's history as it was or appends to
\* it exactly the user message followed by the assistant's reply, earlier
\* entries staying in place, and a step that appends to one session leaves
\* the history of every other session as it was
C19_HistoryAppendOnly ==
    [][\A s \in StreamlitSessions :
          \/ SameHistory(s)
          \/ /\ AppendsExchange(s)
             /\ \A o \in StreamlitSessions \ {s} : SameHistory(o)]_vars

\* session a holds two exchanges in the order received, session b one other
C19_Witness ==
    /\ Len(History(session_state["a"])) = 4
    /\ session_state["a"].messages[1] = [role |-> "user", content |-> "Bonjour"]
    /\ session_state["a"].messages[2].role = "assistant"
    /\ session_state["a"].messages[3] =
           [role |-> "user", content |-> "Comment traiter le MILDIOU ?"]
    /\ session_state["a"].messages[4] =
           [role |-> "assistant",
            content |-> generate_chatbot_response("Comment traiter le MILDIOU ?", "fr")]
    /\ History(session_state["b"]) =
           <<[role |-> "user", content |-> "default xyz"],
             [role |-> "assistant",
              content |-> generate_chatbot_response("default xyz", "wo")]>>


(***************************************************************************)
(* Callers served at the same time                                         *)
(***************************************************************************)

\* the catalog and treatment tables are the ones the modules define, and
\* the index of the resolver is the one built from them
TablesAsLoaded ==
    /\ DISEASE_INFO = DISEASE_INFO_init
    /\ DATASET_DISEASES = DATASET_DISEASES_init
    /\ detector_DISEASE_INFO = detector_DISEASE_INFO_init
    /\ TREATMENTS_DB = TREATMENTS_DB_init
    /\ TEXT_INDEX = _build_index

\* caller c has been served
Served(c) == calls[c].op # "none" /\ calls[c].stage = "done"

\* C18: whatever calls to the resolver, the reconciler, the catalogue
\* endpoint and predict are in progress and in whatever order they are
\* served, the catalog and treatment tables stay the ones loaded, and the
\* result a caller holds is the result of its call on those tables
C18_TablesReadOnly ==
    /\ TablesAsLoaded
    /\ \A c \in Callers :
           Served(c) =>
               calls[c].result = Handle(calls[c].call, calls[c].outcome, calls[c].now)

\* the catalogue endpoint has filtered the catalog for one caller, and the
\* other caller has then been given the whole catalog
C18_Witness ==
    /\ Served(1)
    /\ calls[1].call = [op |-> "diseases", crop_type |-> " Tomate"]
    /\ Len(calls[1].result.diseases) < Len(DATASET_DISEASES_init)
    /\ Served(2)
    /\ calls[2].call = [op |-> "diseases", crop_type |-> None]
    /\ calls[2].result.diseases = DATASET_DISEASES_init


\* the crop names sent that are no spelling of an alias
UnknownCrops ==
    (CropQueries \ UNION {GroupQueries(i) : i \in 1..Len(aliases)}) \ {None, ""}

\* C21: the catalogue endpoint answers a crop name that is no alias with
\* status 200, an empty list and total 0, and a request without a crop name
\* with the whole catalog and total equal to its size
C21_UnknownCropEmptyList ==
    Listed =>
        /\ res.status = 200
        /\ req.crop_type \in UnknownCrops =>
               /\ res.body.diseases = <<>>
               /\ res.body.total = 0
               /\ res.body.filter = req.crop_type
        /\ req.crop_type = None =>
               /\ res.body.diseases = DATASET_DISEASES_init
               /\ res.body.total = Len(DATASET_DISEASES_init)

\* "piment" was sent and came back with an empty list
C21_Witness ==
    /\ Listed
    /\ req.crop_type = "piment"
    /\ res.body = [diseases |-> <<>>, total |-> 0, filter |-> "piment"]

\* no crop name was sent and the 14 entries came back
C21_WitnessWhole ==
    /\ Listed
    /\ req.crop_type = None
    /\ res.body.total = 14


(***************************************************************************)
(* The formatter of the chatbot                                            *)
(***************************************************************************)

\* text.split("\n")
Lines(text) ==
    LET breaks == {i \in 1..Len(text) : SubSeq(text, i, i) = "\n"}
        \* the place of the k-th line break, 0 before the first line and
        \* Len(text) + 1 after the last
        Break(k) ==
            IF k = 0 THEN 0
            ELSE IF k > Cardinality(breaks) THEN Len(text) + 1
            ELSE CHOOSE i \in breaks : Cardinality({j \in breaks : j < i}) = k - 1
    IN  [k \in 1..(Cardinality(breaks) + 1) |->
            SubSeq(text, Break(k - 1) + 1, Break(k) - 1)]

\* the items listed in a text: its lines that begin with the bullet
Bullets(text) ==
    LET lines == Lines(text)
        F[i \in 0..Len(lines)] ==
            IF i = 0 THEN <<>>
            ELSE IF StartsWith("  · ", lines[i])
                 THEN Append(F[i - 1], SubSeq(lines[i], 5, Len(lines[i])))
                 ELSE F[i - 1]
    IN  F[Len(lines)]

\* the formatter has answered
Formatted == req.op = "format" /\ res.kind = "text"

\* the entry of the loaded knowledge base the formatter was called for
FormattedEntry ==
    DISEASE_INFO_init[CHOOSE i \in 1..Len(DISEASE_INFO_init) :
                          DISEASE_INFO_init[i].key = req.key]

\* the text has something after its first line
HasBody(text) == Len(Lines(text)) > 1 /\ Lines(text)[2] # ""

\* C22: for every entry and every message that asks for treatments, for
\* prevention or for symptoms, the first line of the reply names the disease;
\* a field that has items is listed item by item, and for a field that is
\* empty or missing the reply is a sentence, never a heading over nothing
C22_ShapeWithSubstitute ==
    (Formatted /\ req.msg_norm \in
         TreatmentRequests \cup PreventionRequests \cup SymptomRequests) =>
        LET data == FormattedEntry
            first_line == Lines(res.text)[1]
        IN  /\ Contains("**" \o data.name \o "**", first_line)
            /\ req.msg_norm \in TreatmentRequests =>
                   /\ Bullets(res.text) = data.treatments
                   /\ data.treatments = <<>> =>
                          /\ StartsWith("Pour **", first_line)
                          /\ Contains("pas de traitement", first_line)
                          /\ HasBody(res.text)
            /\ req.msg_norm \in PreventionRequests =>
                   /\ Bullets(res.text) = data.prevention
                   /\ data.prevention = <<>> =>
                          /\ StartsWith("Prévention générale pour **", first_line)
                          /\ HasBody(res.text)
            /\ req.msg_norm \in SymptomRequests =>
                   IF data.symptoms # ""
                   THEN Lines(res.text)[2] = data.symptoms
                   ELSE /\ StartsWith("Symptômes de **", first_line)
                        /\ Contains("taches sur feuilles", first_line)

\* treatments were asked for a healthy entry, which has none
C22_Witness ==
    /\ Formatted
    /\ req.key = "tomato_healthy"
    /\ req.msg_norm \in TreatmentRequests
    /\ FormattedEntry.treatments = <<>>
    /\ Bullets(res.text) = <<>>
    /\ Contains("pas de traitement", res.text)

\* symptoms were asked for an entry that has none
C22_WitnessSymptoms ==
    /\ Formatted
    /\ req.key = "potato_healthy"
    /\ req.msg_norm \in SymptomRequests
    /\ FormattedEntry.symptoms = ""
    /\ Contains("taches sur feuilles", res.text)


(***************************************************************************)
(* The detection response and the knowledge base                           *)
(***************************************************************************)

\* the names that describe a key: its names in the knowledge base of the
\* detector and the condition of the catalog entry of that id
NamesOf(key) ==
    {detector_DISEASE_INFO[key][l] : l \in {"fr", "wo", "pu"} \cap DOMAIN detector_DISEASE_INFO[key]}
    \cup {DATASET_DISEASES[i].disease_fr :
              i \in {j \in 1..Len(DATASET_DISEASES) : DATASET_DISEASES[j].id = key}}

\* the crops that describe a key: its crop in the knowledge base of the
\* detector and the plant of the catalog entry of that id
CropsOf(key) ==
    {detector_DISEASE_INFO[key].crop}
    \cup {DATASET_DISEASES[i].plant_fr :
              i \in {j \in 1..Len(DATASET_DISEASES) : DATASET_DISEASES[j].id = key}}

\* C23: in every response of the detection endpoint whose disease_id is a
\* key of the detector's knowledge base, for a request in fr, wo or pu that
\* names no crop itself, disease_name is a name of that key and
\* affected_crop is the crop of that key
C23_ResponseDescribesOneDisease ==
    (/\ Answered
     /\ req.language \in {"fr", "wo", "pu"}
     /\ req.crop_type = None
     /\ res.body.disease_id \in DOMAIN detector_DISEASE_INFO) =>
        /\ res.body.disease_name \in NamesOf(res.body.disease_id)
        /\ res.body.affected_crop \in CropsOf(res.body.disease_id)


(***************************************************************************)
(* What the resolver takes for a name                                      *)
(***************************************************************************)

\* the tokens of the index texts that name nothing
FunctionWords == {"de", "la", "du", "/"}

\* the tokens of the index texts that name a crop or a disease
NamingTokens ==
    UNION {{Split(TEXT_INDEX[i][1])[p] : p \in 1..Len(Split(TEXT_INDEX[i][1]))} :
              i \in 1..Len(TEXT_INDEX)}
    \ FunctionWords

\* the message holds a token or an alias that names a crop or a disease
NamesCatalog(msg_norm) ==
    \/ \E t \in NamingTokens : Contains(t, msg_norm)
    \/ \E i \in 1..Len(crop_fr) : Contains(crop_fr[i][1], msg_norm)
    \/ \E i \in 1..Len(disease_fr) : Contains(disease_fr[i][1], msg_norm)

\* the distinct tokens of an index text found in the message
DistinctTokensFound(text, msg_norm) ==
    {t \in {Split(text)[p] : p \in 1..Len(Split(text))} : Contains(t, msg_norm)}

\* C24: a message that holds no token and no alias naming a crop or a
\* disease gets no key and intent general, and a key found by the token
\* rule has an index text of which two distinct tokens (one, for a text of
\* one token) are in the message
C24_FunctionWordsResolveNothing ==
    Replied =>
        /\ ~NamesCatalog(res.locals.msg_norm) =>
               /\ res.locals.disease_key = None
               /\ res.ret.intent = "general"
        /\ (/\ PairedMatch(res.locals.msg_norm) = None
            /\ res.locals.disease_key # None) =>
               \E i \in 1..Len(TEXT_INDEX) :
                   /\ TEXT_INDEX[i][2] = res.locals.disease_key
                   /\ Cardinality(DistinctTokensFound(TEXT_INDEX[i][1], res.locals.msg_norm))
                          >= (IF Len(Split(TEXT_INDEX[i][1])) < 2 THEN 1 ELSE 2)

\* "arrosage de mes plantes" is taken for the late blight of the potato, of
\* whose display name it holds "de" (twice in the name) and "la" (in "plantes")
C24_Mistaken ==
    /\ Replied
    /\ req.message = "arrosage de mes plantes"
    /\ ~NamesCatalog(res.locals.msg_norm)
    /\ res.locals.disease_key = "potato_late_blight"
    /\ res.ret.intent = "disease_info"


\* "engrais de fond" holds one token of the display name, "de", which the
\* name has twice, and is taken for the late blight of the potato
C24_CountedTwice ==
    /\ Replied
    /\ req.message = "engrais de fond"
    /\ DistinctTokensFound("mildiou de la pomme de terre", res.locals.msg_norm) = {"de"}
    /\ res.locals.disease_key = "potato_late_blight"
    /\ res.ret.intent = "disease_info"


(***************************************************************************)
(* The list of the diseases of the tomato                                  *)
(***************************************************************************)

\* the message mentions the tomato and "maladie", names no condition and
\* holds no keyword of the rules that _general_reply tries first
AsksTomatoDiseases(msg_norm) ==
    /\ Contains("tomate", msg_norm)
    /\ Contains("maladie", msg_norm)
    /\ \A i \in 1..Len(disease_fr) : ~Contains(disease_fr[i][1], msg_norm)
    /\ ~AnyWord(FUNGAL_WORDS \cup BIO_WORDS \cup WATERING_WORDS
                   \cup GENERAL_PREVENTION_WORDS, msg_norm)

\* C25: a message that mentions the tomato and "maladie" and names no
\* disease is answered with the list of the common diseases of the tomato
\* and intent general
C25_TomatoDiseaseList ==
    (Replied /\ AsksTomatoDiseases(res.locals.msg_norm)) =>
        /\ res.ret.intent = "general"
        /\ res.ret.response = TOMATO_REPLY

\* "maladie tomate" is answered with the fact sheet of the first tomato entry
C25_FirstTomatoEntry ==
    /\ Replied
    /\ req.message = "maladie tomate"
    /\ AsksTomatoDiseases(res.locals.msg_norm)
    /\ _general_reply(res.locals.msg_norm) = TOMATO_REPLY
    /\ res.locals.disease_key = "tomato_bacterial_spot"
    /\ res.ret.intent = "disease_info"

\* generate_response never returns the list of the diseases of the tomato
C25_ListNeverReturned == Replied => res.ret.response # TOMATO_REPLY


(***************************************************************************)
(* The substring rule of the resolver                                      *)
(***************************************************************************)

\* _find_disease_key without its Tentative 3
FindWithoutSubstring(index, msg_norm) ==
    LET a1 == PairedMatch(msg_norm)
        a2 == TokenMatch(index, msg_norm)
    IN  IF a1 # None THEN a1 ELSE a2

\* C26: the key generate_response works with is the key that the paired rule
\* and the token rule alone give: whenever those two find nothing, no index
\* text is a substring of the message, and an index text that is a substring
\* of the message has every one of its tokens in the message
C26_SubstringRuleRedundant ==
    Replied =>
        /\ res.locals.disease_key = FindWithoutSubstring(TEXT_INDEX, res.locals.msg_norm)
        /\ FindWithoutSubstring(TEXT_INDEX, res.locals.msg_norm) = None =>
               SubstringMatch(TEXT_INDEX, res.locals.msg_norm) = None
        /\ \A i \in 1..Len(TEXT_INDEX) :
               Contains(TEXT_INDEX[i][1], res.locals.msg_norm) =>
                   \A p \in 1..Len(Split(TEXT_INDEX[i][1])) :
                       Contains(Split(TEXT_INDEX[i][1])[p], res.locals.msg_norm)

\* a message in which an index text is a substring, the paired rule finds
\* nothing and the token rule has already found the key
C26_Witness ==
    /\ Replied
    /\ req.message = "les tomates"
    /\ PairedMatch(res.locals.msg_norm) = None
    /\ SubstringMatch(TEXT_INDEX, res.locals.msg_norm) = "tomato_bacterial_spot"
    /\ TokenMatch(TEXT_INDEX, res.locals.msg_norm) = "tomato_bacterial_spot"
    /\ res.locals.disease_key = "tomato_bacterial_spot"


(***************************************************************************)
(* The model the service works with                                        *)
(***************************************************************************)

\* the files of the configured directory a model is loaded from
PathModels == {"model.keras", "model.h5"}

\* a detector exists and says it is loaded
DetectorLoaded ==
    /\ DETECTOR # NoneEntry
    /\ DETECTOR.is_loaded

\* predict has run for the detection endpoint
PredictionServed == Detected /\ "result" \in DOMAIN res

\* C27: in every state in which the detector says it is loaded, start-up
\* recorded no model-load error or a prediction has been served, the model
\* of the detector is one loaded from the configured directory
C27_OnlyTheConfiguredModel ==
    (DetectorLoaded \/ MODEL_LOAD_ERROR = None \/ PredictionServed) =>
        /\ DETECTOR # NoneEntry
        /\ DETECTOR.model \in PathModels

\* the files could not be loaded, the detector built the fallback network,
\* start-up recorded no error and the endpoint answered from that network
C27_FallbackServes ==
    /\ DetectorLoaded
    /\ DETECTOR.model = "fallback"
    /\ MODEL_LOAD_ERROR = None
    /\ Answered
    /\ res.body.success


(***************************************************************************)
(* The health endpoints                                                    *)
(***************************************************************************)

\* C28: once start-up has run, MODEL_LOAD_ERROR is None exactly when a
\* detector exists with is_loaded true; so in every state /health answers
\* "healthy" exactly when /health/ready answers 200 and "ready", and
\* /health/ready answers 503 and "not-ready" otherwise, and the answer a
\* client got from one endpoint agrees with the other
C28_HealthyIffReady ==
    /\ (MODEL_LOAD_ERROR = None) <=> IsLoaded(DETECTOR)
    /\ \A now \in Times :
           LET h == health(DETECTOR, has, now)
               r == ready(DETECTOR, MODEL_LOAD_ERROR, has, now)
           IN  /\ (h.body.status = "healthy") <=> (r.status = 200 /\ r.body.status = "ready")
               /\ h.body.status # "healthy" =>
                      (r.status = 503 /\ r.body.status = "not-ready")
               /\ (req.op = "health" /\ res.kind = "http") =>
                      ((res.body.status = "healthy") <=> (r.status = 200))
               /\ (req.op = "ready" /\ res.kind = "http") =>
                      ((res.status = 200) <=> (h.body.status = "healthy"))

\* a detector exists that is not loaded, a model-load error is recorded and
\* /health/ready has answered 503
C28_Witness ==
    /\ req.op = "ready"
    /\ res.kind = "http"
    /\ DETECTOR # NoneEntry
    /\ ~IsLoaded(DETECTOR)
    /\ MODEL_LOAD_ERROR = "Modèle non chargé (is_loaded=False)"
    /\ res.status = 503
    /\ res.body.status = "not-ready"
    /\ health(DETECTOR, has, 1).body.status = "degraded"

\* the model is loaded and /health has answered "healthy"
C28_WitnessHealthy ==
    /\ req.op = "health"
    /\ res.kind = "http"
    /\ res.body.status = "healthy"
    /\ MODEL_LOAD_ERROR = None
    /\ ready(DETECTOR, MODEL_LOAD_ERROR, has, 1).status = 200


(***************************************************************************)
(* The guards of the detection endpoint                                    *)
(***************************************************************************)

\* no multipart error and no model-load error is recorded and the detector
\* exists with is_loaded true
Servable ==
    /\ MULTIPART_IMPORT_ERROR = None
    /\ MODEL_LOAD_ERROR = None
    /\ IsLoaded(DETECTOR)

\* the upload is declared an image
ImageUpload == req.content_type \notin {None, ""} /\ StartsWith("image/", req.content_type)

\* C29: the detection endpoint calls predict only in states where no
\* multipart error and no model-load error is recorded and the detector is
\* loaded; in every other state an upload declared an image is answered 503
\* without predict being called; an upload not declared an image is answered
\* 400 in every state
C29_PredictOnlyWhenServable ==
    Detected =>
        /\ PredictionServed => (Servable /\ ImageUpload)
        /\ (ImageUpload /\ ~Servable) => (res.status = 503 /\ ~PredictionServed)
        /\ ~ImageUpload => (res.status = 400 /\ ~PredictionServed)

\* a model-load error is recorded and an image upload was answered 503
C29_Witness ==
    /\ Detected
    /\ ImageUpload
    /\ MULTIPART_IMPORT_ERROR = None
    /\ MODEL_LOAD_ERROR # None
    /\ res.status = 503
    /\ ~PredictionServed

\* python-multipart is missing and a text upload was answered 400
C29_WitnessNotImage ==
    /\ Detected
    /\ req.content_type = "text/plain"
    /\ MULTIPART_IMPORT_ERROR # None
    /\ res.status = 400

\* the service is loaded and predict was called for an image upload
C29_WitnessPredict ==
    /\ Detected
    /\ Servable
    /\ ImageUpload
    /\ PredictionServed
    /\ res.status = 200


(***************************************************************************)
(* The detection of the Streamlit application                              *)
(***************************************************************************)

\* predict_disease has returned for a class of the model
AppPredicted ==
    /\ req.op = "predict_disease"
    /\ res.kind = "app_prediction"
    /\ req.model # None

\* the ids of the catalog of the application
AppCatalogIds == {app_DATASET_DISEASES[i].id : i \in 1..Len(app_DATASET_DISEASES)}

\* the canonical key of class i, counted from 0
KeyOfClass(i) == CLASS_ALIASES[i + 1][2]

\* C30: for every class of the model, in the training order of
\* CLASS_ALIASES, predict_disease reports the catalog entry whose id is the
\* canonical key of the class, and the "unknown" entry for a class whose key
\* the catalog lacks
C30_EntryOfTheClass ==
    AppPredicted =>
        LET key == KeyOfClass(res.predicted_class)
        IN  IF key \in AppCatalogIds
            THEN /\ res.result.disease_id = key
                 /\ \E i \in 1..Len(app_DATASET_DISEASES) :
                        /\ app_DATASET_DISEASES[i].id = key
                        /\ res.result.disease_name = app_DATASET_DISEASES[i].disease_fr
                        /\ res.result.plant = app_DATASET_DISEASES[i].plant_fr
            ELSE res.result.disease_id = "unknown"

\* class 7, Tomato_Late_blight, is reported as the leaf mold of the tomato
C30_Shifted ==
    /\ AppPredicted
    /\ res.predicted_class = 7
    /\ CLASS_ALIASES[8][1] = "Tomato_Late_blight"
    /\ res.result.disease_id = "tomato_leaf_mold"

\* class 14, Tomato_healthy, is reported as the unknown disease
C30_HealthyUnknown ==
    /\ AppPredicted
    /\ res.predicted_class = 14
    /\ KeyOfClass(14) = "tomato_healthy"
    /\ res.result.disease_id = "unknown"
    /\ res.result.disease_name = "Maladie inconnue"

====
